---- MODULE Spec2Model ----
(***************************************************************************)
(* Deduplicating ingestion pipeline of Exchange-News-Analysis:             *)
(*   - app/storage/postgres_manager.py  (AnnouncementStorage)              *)
(*   - app/models/analyzer.py           (AnnouncementAnalyzer)             *)
(*   - app/storage/redis_cache.py       (RedisCache)                       *)
(*   - app/services/tlg_notifier.py     (Notifier.send)                    *)
(*   - app/services/ByBitclient.py, news_api.py, marketaux.py (the feeds)  *)
(*                                                                         *)
(* Conventions.  Python None and SQL NULL are the value NULL.  A dict is a *)
(* function; a key that is absent from the dict is absent from its DOMAIN. *)
(* Times are counted in seconds since the epoch.  A float confidence is    *)
(* counted in hundredths (0.50 is 50).  SHA-256 is an injective symbolic   *)
(* function of its input text.                                             *)
(***************************************************************************)
EXTENDS Integers, Sequences, FiniteSets, TLC

\* None / NULL where a text is expected, and None where an object is.
NULL == "None"
PyNone == [py |-> "None"]

\* F(v) with the value v computed once, as a local variable holds it.
Bind(v, F(_)) == CHOOSE y \in {F(x) : x \in {v}} : TRUE

\* dict.get(key): the value, or None when the key is absent.
Get(d, k) == IF k \in DOMAIN d THEN d[k] ELSE NULL

(***************************************************************************)
(* Bounds of the model.                                                    *)
(***************************************************************************)
\* Number of storage transactions in one behaviour (values NOW() takes).
MaxClock == 3
\* Longest batch handed to bulk_check_new / _process_batch.
MaxBatch == 2

\* The confidence a notification must exceed (0.50), in hundredths.
ConfidenceThreshold == 50

(***************************************************************************)
(* Datetime values.  A datetime is [wall, aware, tz]: the wall-clock       *)
(* reading in seconds, whether it carries a tzinfo, and its UTC offset in  *)
(* seconds (0 when it carries none).                                       *)
(***************************************************************************)
Hour == 60 * 60
Day == 24 * Hour

\* 2024-01-01T00:00:00Z and 2023-11-14T22:13:20Z as epoch seconds.
T1 == 19723 * Day
T2 == 1700000 * 1000

Aware(wall, tz) == [wall |-> wall, aware |-> TRUE, tz |-> tz]
Naive(wall) == [wall |-> wall, aware |-> FALSE, tz |-> 0]

\* A publish-time input, as the feeds hand it over.
\*   int       : [kind |-> "int", k]  the integer 1000 * k
\*   str       : [kind |-> "str", wall, suffix]  the ISO-8601 text of the
\*               wall-clock reading followed by the suffix
\*   datetime  : [kind |-> "datetime", dt]
\*   None      : [kind |-> "None"]
\*   other     : [kind |-> "float"] (a type the parser does not accept)
IntTime(k) == [kind |-> "int", k |-> k]
StrTime(wall, suffix) == [kind |-> "str", wall |-> wall, suffix |-> suffix]
DtTime(dt) == [kind |-> "datetime", dt |-> dt]
NoneTime == [kind |-> "None"]
OtherTime == [kind |-> "float"]

\* The UTC-offset suffixes datetime.fromisoformat accepts in this model, with
\* the offset each denotes; "" is a text without offset (a naive datetime).
IsoSuffixes == {"", "+00:00", "+01:00", "-01:00"}
SuffixOffset(s) ==
    CASE s = "+00:00" -> 0
      [] s = "+01:00" -> Hour
      [] s = "-01:00" -> 0 - Hour

\* The value a failed parse raises instead of returning.
ValueError == [error |-> "ValueError"]

\* A faulty variant of AsTimezoneUtc: the offset is dropped, not applied.
AsTimezoneUtcKeepsWall(dt) == Aware(dt.wall, 0)

\* datetime.astimezone(timezone.utc) / datetime.replace(tzinfo=timezone.utc)
AsTimezoneUtc(dt) == Aware(dt.wall - dt.tz, 0)
ReplaceTzUtc(dt) == Aware(dt.wall, 0)

\* dt.astimezone(timezone.utc) if dt.tzinfo else dt.replace(tzinfo=timezone.utc)
ToUtc(dt) == IF dt.aware THEN AsTimezoneUtc(dt) ELSE ReplaceTzUtc(dt)

\* 1e12 in the unit of the "int" inputs (thousands).
MsThreshold == 1000000000

\* datetime.fromisoformat on the text [wall, suffix]; raises on other text.
FromIsoFormat(wall, suffix) ==
    IF suffix \notin IsoSuffixes THEN ValueError
    ELSE IF suffix = "" THEN Naive(wall)
    ELSE Aware(wall, SuffixOffset(suffix))

\* The last second datetime can hold, 9999-12-31T23:59:59Z (253402300799),
\* in the unit of the "int" inputs, rounded down: fromtimestamp raises for
\* a later one.
MaxTimestamp == 253402300

\* A faulty variant of ParseDatetime: every integer is read as seconds.
ParseDatetimeSecondsOnly(dt_value) ==
    CASE dt_value.kind = "None" -> ValueError
      [] dt_value.kind = "int" ->
            IF dt_value.k > MaxTimestamp THEN ValueError
            ELSE Aware(1000 * dt_value.k, 0)
      [] dt_value.kind = "str" ->
            LET s == IF dt_value.suffix = "Z" THEN "+00:00" ELSE dt_value.suffix
                dt == FromIsoFormat(dt_value.wall, s)
            IN  IF dt = ValueError THEN ValueError ELSE ToUtc(dt)
      [] dt_value.kind = "datetime" -> ToUtc(dt_value.dt)
      [] OTHER -> ValueError

\* AnnouncementStorage._parse_datetime.  An integer above 1e12 is divided by
\* 1000 and read as seconds, any other integer is read as seconds as it is;
\* fromtimestamp raises when the seconds are beyond the year 9999, and the
\* except clause turns that into the ValueError of a failed parse.
ParseDatetime(dt_value) ==
    CASE dt_value.kind = "None" -> ValueError
      [] dt_value.kind = "int" ->
            IF dt_value.k > MsThreshold
            THEN Aware(dt_value.k, 0)
            ELSE IF dt_value.k > MaxTimestamp THEN ValueError
            ELSE Aware(1000 * dt_value.k, 0)
      [] dt_value.kind = "str" ->
            LET s == IF dt_value.suffix = "Z" THEN "+00:00" ELSE dt_value.suffix
                dt == FromIsoFormat(dt_value.wall, s)
            IN  IF dt = ValueError THEN ValueError ELSE ToUtc(dt)
      [] dt_value.kind = "datetime" -> ToUtc(dt_value.dt)
      [] OTHER -> ValueError

\* Two digits, as in HH:MM:SS.
TwoDigits(n) == IF n < 10 THEN "0" \o ToString(n) ELSE ToString(n)

\* The text of a UTC offset: +HH:MM.
OffsetText(tz) ==
    IF tz >= 0 THEN "+" \o TwoDigits(tz \div Hour) \o ":" \o TwoDigits((tz % Hour) \div 60)
    ELSE "-" \o TwoDigits((0 - tz) \div Hour) \o ":" \o TwoDigits(((0 - tz) % Hour) \div 60)

\* datetime.isoformat(): the civil date (counted as the day number), the time
\* of day and the offset.
IsoFormat(dt) ==
    LET secs == dt.wall % Day
    IN  "D" \o ToString(dt.wall \div Day) \o "T"
        \o TwoDigits(secs \div Hour) \o ":"
        \o TwoDigits((secs % Hour) \div 60) \o ":"
        \o TwoDigits(secs % 60)
        \o (IF dt.aware THEN OffsetText(dt.tz) ELSE "")

\* base64.urlsafe_b64encode(hashlib.sha256(raw).digest())[:12]
Sha256B64(raw) == "sha256:" \o raw

\* AnnouncementStorage._generate_id
GenerateId(exchange, source_id, publish_time) ==
    LET pt == IF publish_time.aware THEN publish_time
              ELSE ReplaceTzUtc(publish_time)
        raw == exchange \o "|" \o source_id \o "|" \o IsoFormat(pt)
    IN  Sha256B64(raw)

(***************************************************************************)
(* The store: the tables of _ensure_tables_exist and the SQL statements    *)
(* the storage methods issue.  db is [announcements, classifications,      *)
(* cls_seq]: the two tables as sets of rows and the SERIAL sequence of     *)
(* announcement_classifications.id.                                        *)
(***************************************************************************)
EmptyDb == [announcements |-> {}, classifications |-> {}, cls_seq |-> 0]

\* The rows a statement finds by primary key / by the unique pair.
RowsById(tbl, id) == {r \in tbl : r.id = id}
RowsByPair(tbl, exchange, announcement_id) ==
    {r \in tbl : r.exchange = exchange /\ r.announcement_id = announcement_id}

\* The result of a statement: the tables after it, or the error it raises.
SqlOk(db) == [ok |-> TRUE, db |-> db]
SqlError(db, what) == [ok |-> FALSE, db |-> db, error |-> what]

\* A faulty variant of UpsertAnnouncement: DO UPDATE also sets id = EXCLUDED.id.
UpsertAnnouncementRekeys(db, new, now) ==
    LET tbl == db.announcements
        hit == RowsByPair(tbl, new.exchange, new.announcement_id)
    IN  IF hit # {}
        THEN SqlOk([db EXCEPT !.announcements =
                 (tbl \ hit) \cup
                 {[r EXCEPT !.id = new.id,
                            !.publish_time = new.publish_time,
                            !.title = new.title,
                            !.content = new.content,
                            !.source_id = new.source_id,
                            !.url = new.url,
                            !.announcement_type = new.announcement_type,
                            !.tags = new.tags,
                            !.raw_data = new.raw_data,
                            !.updated_at = now] : r \in hit}])
        ELSE SqlOk([db EXCEPT !.announcements = tbl \cup
                 {new @@ [user_label |-> NULL, created_at |-> now,
                          updated_at |-> now]}])

\* A faulty variant of UpsertAnnouncement: a plain INSERT into a table without the
\* unique constraint on (exchange, announcement_id).
UpsertAnnouncementNoArbiter(db, new, now) ==
    IF RowsById(db.announcements, new.id) # {}
    THEN SqlError(db, "unique_violation")
    ELSE SqlOk([db EXCEPT !.announcements = db.announcements \cup
             {new @@ [user_label |-> NULL, created_at |-> now,
                      updated_at |-> now]}])

\* A faulty variant of UpsertAnnouncement: the stored row is replaced by the
\* new one (user_label = NULL is among the columns set).
UpsertAnnouncementClearsUserLabel(db, new, now) ==
    LET tbl == db.announcements
        hit == RowsByPair(tbl, new.exchange, new.announcement_id)
    IN  IF new.title = NULL \/ new.raw_data = NULL
        THEN SqlError(db, "not_null_violation")
        ELSE IF hit # {}
        THEN SqlOk([db EXCEPT !.announcements =
                 (tbl \ hit) \cup
                 {[r EXCEPT !.publish_time = new.publish_time,
                            !.title = new.title,
                            !.content = new.content,
                            !.source_id = new.source_id,
                            !.url = new.url,
                            !.announcement_type = new.announcement_type,
                            !.tags = new.tags,
                            !.raw_data = new.raw_data,
                            !.user_label = NULL,
                            !.updated_at = now] : r \in hit}])
        ELSE IF RowsById(tbl, new.id) # {}
        THEN SqlError(db, "unique_violation")
        ELSE SqlOk([db EXCEPT !.announcements = tbl \cup
                 {new @@ [user_label |-> NULL, created_at |-> now,
                          updated_at |-> now]}])

\* INSERT INTO announcements ... ON CONFLICT (exchange, announcement_id)
\* DO UPDATE SET ... ; the columns the statement does not name keep their
\* default (user_label NULL, created_at NOW()).
UpsertAnnouncement(db, new, now) ==
    LET tbl == db.announcements
        hit == RowsByPair(tbl, new.exchange, new.announcement_id)
    IN  IF new.title = NULL \/ new.raw_data = NULL
        THEN SqlError(db, "not_null_violation")
        ELSE IF hit # {}
        THEN SqlOk([db EXCEPT !.announcements =
                 (tbl \ hit) \cup
                 {[r EXCEPT !.publish_time = new.publish_time,
                            !.title = new.title,
                            !.content = new.content,
                            !.source_id = new.source_id,
                            !.url = new.url,
                            !.announcement_type = new.announcement_type,
                            !.tags = new.tags,
                            !.raw_data = new.raw_data,
                            !.updated_at = now] : r \in hit}])
        ELSE IF RowsById(tbl, new.id) # {}
        THEN SqlError(db, "unique_violation")
        ELSE SqlOk([db EXCEPT !.announcements = tbl \cup
                 {[id |-> new.id,
                   exchange |-> new.exchange,
                   announcement_id |-> new.announcement_id,
                   publish_time |-> new.publish_time,
                   title |-> new.title,
                   content |-> new.content,
                   source_id |-> new.source_id,
                   url |-> new.url,
                   announcement_type |-> new.announcement_type,
                   tags |-> new.tags,
                   raw_data |-> new.raw_data,
                   user_label |-> NULL,
                   created_at |-> now,
                   updated_at |-> now]}])

\* A faulty variant of InsertClassification: a plain INSERT, without ON CONFLICT and
\* without the unique index.
InsertClassificationNoArbiter(db, announcement_id, label, confidence, is_user, now) ==
    IF RowsById(db.announcements, announcement_id) = {}
    THEN SqlError([db EXCEPT !.cls_seq = @ + 1], "foreign_key_violation")
    ELSE SqlOk([db EXCEPT !.cls_seq = @ + 1,
                          !.classifications = @ \cup
                 {[id |-> db.cls_seq + 1,
                   announcement_id |-> announcement_id,
                   label |-> label,
                   confidence |-> confidence,
                   classified_at |-> now,
                   is_user |-> is_user]}])

\* A faulty variant of InsertClassification: the unique index on (announcement_id,
\* is_user) is not partial, so a human row is upserted in place as well.
InsertClassificationFullIndex(db, announcement_id, label, confidence, is_user, now) ==
    LET ctbl == db.classifications
        hit == {r \in ctbl : /\ r.announcement_id = announcement_id
                             /\ r.is_user = is_user}
    IN  IF hit # {}
        THEN SqlOk([db EXCEPT !.cls_seq = @ + 1,
                              !.classifications =
                 (ctbl \ hit) \cup
                 {[r EXCEPT !.label = label,
                            !.confidence = confidence,
                            !.classified_at = now] : r \in hit}])
        ELSE InsertClassificationNoArbiter(db, announcement_id, label,
                                           confidence, is_user, now)

\* INSERT INTO announcement_classifications ... ON CONFLICT (announcement_id,
\* is_user) WHERE NOT is_user DO UPDATE SET ... .  The arbiter is the partial
\* unique index idx_unique_non_user_classification, which holds the rows with
\* is_user = false only; announcement_id REFERENCES announcements(id).  The
\* sequence is advanced by every execution, also by one that fails.
InsertClassification(db, announcement_id, label, confidence, is_user, now) ==
    LET ctbl == db.classifications
        seq == db.cls_seq + 1
        next == [db EXCEPT !.cls_seq = seq]
        hit == {r \in ctbl : /\ r.announcement_id = announcement_id
                             /\ ~r.is_user
                             /\ ~is_user}
    IN  IF hit # {}
        THEN SqlOk([next EXCEPT !.classifications =
                 (ctbl \ hit) \cup
                 {[r EXCEPT !.label = label,
                            !.confidence = confidence,
                            !.classified_at = now] : r \in hit}])
        ELSE IF RowsById(db.announcements, announcement_id) = {}
        THEN SqlError(next, "foreign_key_violation")
        ELSE SqlOk([next EXCEPT !.classifications = ctbl \cup
                 {[id |-> seq,
                   announcement_id |-> announcement_id,
                   label |-> label,
                   confidence |-> confidence,
                   classified_at |-> now,
                   is_user |-> is_user]}])

\* UPDATE announcements SET user_label = $1, updated_at = NOW() WHERE id = $2
UpdateUserLabel(db, announcement_id, user_label, now) ==
    [db EXCEPT !.announcements =
        {IF r.id = announcement_id
         THEN [r EXCEPT !.user_label = user_label, !.updated_at = now]
         ELSE r : r \in db.announcements}]

\* A faulty variant of SelectExistingIds: the query matches no row.
SelectExistingIdsNone(db, ids) == {}

\* SELECT id FROM announcements WHERE id = ANY($1)
SelectExistingIds(db, ids) == {r.id : r \in {x \in db.announcements : x.id \in ids}}

(***************************************************************************)
(* A transaction (async with conn.transaction()).  tx is [db, aborted]:    *)
(* the tables as the transaction sees them and whether a statement of it   *)
(* has failed.  Leaving the block without an exception sends COMMIT, which *)
(* the server answers with a rollback when the transaction has failed; the *)
(* sequence is not transactional.                                          *)
(***************************************************************************)
Begin(db) == [db |-> db, aborted |-> FALSE]

\* One statement inside the transaction; fails when the store does (faulty)
\* or when the transaction has already failed.
Execute(tx, res, faulty) ==
    IF tx.aborted \/ faulty \/ ~res.ok
    THEN [db |-> [tx.db EXCEPT !.cls_seq = res.db.cls_seq], aborted |-> TRUE]
    ELSE [db |-> res.db, aborted |-> FALSE]

Commit(db, tx) ==
    IF tx.aborted THEN [db EXCEPT !.cls_seq = tx.db.cls_seq] ELSE tx.db

(***************************************************************************)
(* Python values the storage methods convert.                              *)
(***************************************************************************)
\* A number, and a value float() does not accept.
Num(n) == [num |-> n]
NotNum == [text |-> "high"]
FloatRaises(v) == "num" \notin DOMAIN v
Float(v) == v.num

\* A payload object: its content and whether json.dumps accepts it (it does
\* not accept a datetime inside).
Payload(text) == [obj |-> text, serializable |-> TRUE]
PayloadWithDatetime(text) == [obj |-> text, serializable |-> FALSE]
JsonDumpsRaises(o) == ~o.serializable
JsonDumps(o) == "json:" \o o.obj

\* bool(classification): None and the empty dict are false.
Truthy(c) == c # PyNone /\ DOMAIN c # {}

\* AnnouncementStorage._extract_type, for the textual type the feed clients
\* produce: announcement.get('type') or announcement.get('annType')
ExtractType(announcement) ==
    LET t == Get(announcement, "type")
    IN  IF t # NULL /\ t # "" THEN t ELSE Get(announcement, "annType")

(***************************************************************************)
(* The storage methods, as functions of the store they find, their         *)
(* arguments, the transaction time NOW() and the statement at which the    *)
(* store fails (fault, "none" when it does not).  Each gives the store it  *)
(* leaves and the value it returns.                                        *)
(***************************************************************************)

\* AnnouncementStorage._save_classification, inside the caller's transaction.
\* Every exception is caught and logged here, so the caller goes on.
SaveClassification(tx, announcement_id, classification, is_user, now, faulty) ==
    LET label == Get(classification, "label")
        given == "confidence" \in DOMAIN classification
    IN  IF given /\ FloatRaises(classification.confidence) THEN tx
        ELSE IF label = NULL \/ label = "" THEN tx
        ELSE Execute(tx,
                     InsertClassification(tx.db, announcement_id, label,
                         IF given THEN Float(classification.confidence) ELSE 0,
                         is_user, now),
                     faulty)

\* The row save_announcement hands to the upsert.
\* announcement.get('tags'), serialised when it is given.
TagsRaises(announcement) ==
    "tags" \in DOMAIN announcement /\ JsonDumpsRaises(announcement.tags)
Tags(announcement) ==
    IF "tags" \in DOMAIN announcement THEN JsonDumps(announcement.tags) ELSE NULL

\* announcement.get('raw_data', announcement), serialised.  The announcement
\* itself holds its publish_time, a datetime when the feed gave one.
RawDataRaises(announcement) ==
    IF "raw_data" \in DOMAIN announcement
    THEN JsonDumpsRaises(announcement.raw_data)
    ELSE announcement.publish_time.kind = "datetime"
RawData(announcement) ==
    IF "raw_data" \in DOMAIN announcement
    THEN JsonDumps(announcement.raw_data)
    ELSE "json:" \o announcement.id

\* The row save_announcement hands to the upsert.
AnnouncementRow(exchange, announcement, db_id, publish_time) ==
    [id |-> db_id,
     exchange |-> exchange,
     announcement_id |-> announcement.id,
     publish_time |-> publish_time,
     title |-> announcement.title,
     content |-> Get(announcement, "content"),
     source_id |-> Get(announcement, "source_id"),
     url |-> Get(announcement, "url"),
     announcement_type |-> ExtractType(announcement),
     tags |-> Tags(announcement),
     raw_data |-> RawData(announcement)]

\* A faulty variant of SaveAnnouncementChecked: the classification handed
\* over is not saved.
SaveAnnouncementWithoutClassification(db, exchange, announcement, classification, db_id, fault, now) ==
    LET publish_time == ParseDatetime(announcement.publish_time)
    IN  IF \/ publish_time = ValueError
           \/ TagsRaises(announcement)
           \/ RawDataRaises(announcement)
        THEN [db |-> db, ret |-> FALSE]
        ELSE
        LET id == IF db_id # NULL /\ db_id # "" THEN db_id
                  ELSE GenerateId(exchange, announcement.id, publish_time)
            row == AnnouncementRow(exchange, announcement, id, publish_time)
            tx1 == Execute(Begin(db), UpsertAnnouncement(db, row, now),
                           fault = "upsert")
        IN  [db |-> Commit(db, tx1), ret |-> ~tx1.aborted]

\* AnnouncementStorage.save_announcement
SaveAnnouncementChecked(db, exchange, announcement, classification, db_id, fault, now) ==
    LET publish_time == ParseDatetime(announcement.publish_time)
    IN  IF \/ publish_time = ValueError
           \/ TagsRaises(announcement)
           \/ RawDataRaises(announcement)
        THEN [db |-> db, ret |-> FALSE]
        ELSE
        LET id == IF db_id # NULL /\ db_id # "" THEN db_id
                  ELSE GenerateId(exchange, announcement.id, publish_time)
            row == AnnouncementRow(exchange, announcement, id, publish_time)
            tx1 == Execute(Begin(db), UpsertAnnouncement(db, row, now),
                           fault = "upsert")
        IN  IF tx1.aborted
            THEN [db |-> Commit(db, tx1), ret |-> FALSE]
            ELSE
            LET tx2 == IF Truthy(classification)
                       THEN SaveClassification(tx1, id, classification, FALSE,
                                               now, fault = "classification")
                       ELSE tx1
            IN  [db |-> Commit(db, tx2), ret |-> TRUE]

\* A faulty variant of SaveAnnouncementResult: title is not among the
\* required fields, an item without one is saved under the empty title.
SaveAnnouncementTitleOptional(db, exchange, announcement, classification, db_id, fault, now) ==
    IF ~({"id", "publish_time"} \subseteq DOMAIN announcement)
    THEN [db |-> db, ret |-> FALSE]
    ELSE SaveAnnouncementChecked(db, exchange,
             [k \in DOMAIN announcement \cup {"title"} |->
                 IF k \in DOMAIN announcement THEN announcement[k] ELSE ""],
             classification, db_id, fault, now)

\* AnnouncementStorage.save_announcement: an announcement without one of the
\* required fields returns False before a connection is acquired.
SaveAnnouncementResult(db, exchange, announcement, classification, db_id, fault, now) ==
    IF ~({"id", "publish_time", "title"} \subseteq DOMAIN announcement)
    THEN [db |-> db, ret |-> FALSE]
    ELSE SaveAnnouncementChecked(db, exchange, announcement, classification,
                                 db_id, fault, now)

\* A faulty variant of UpdateUserClassificationResult: the correction is saved with
\* is_user = False.
UpdateUserClassificationAsAutomated(db, announcement_id, user_label, fault, now) ==
    LET tx1 == Execute(Begin(db),
                       SqlOk(UpdateUserLabel(db, announcement_id, user_label, now)),
                       fault = "update")
        tx2 == SaveClassification(tx1, announcement_id,
                                  [label |-> user_label], FALSE, now,
                                  fault = "classification")
    IN  [db |-> Commit(db, tx2), ret |-> ~tx1.aborted]

\* AnnouncementStorage.update_user_classification
UpdateUserClassificationResult(db, announcement_id, user_label, fault, now) ==
    LET tx1 == Execute(Begin(db),
                       SqlOk(UpdateUserLabel(db, announcement_id, user_label, now)),
                       fault = "update")
    IN  IF tx1.aborted
        THEN [db |-> Commit(db, tx1), ret |-> FALSE]
        ELSE
        LET tx2 == SaveClassification(tx1, announcement_id,
                                      [label |-> user_label], TRUE, now,
                                      fault = "classification")
        IN  [db |-> Commit(db, tx2), ret |-> TRUE]

\* An item bulk_check_new can fingerprint: a['publish_time'] and a['id']
\* exist and the publish time parses.
Fingerprintable(a) ==
    /\ {"publish_time", "id"} \subseteq DOMAIN a
    /\ ParseDatetime(a.publish_time) # ValueError

\* A faulty variant of IdPairs: one item that cannot be fingerprinted leaves
\* no pair at all.
IdPairsAllOrNothing(exchange, announcements) ==
    IF \E i \in 1..Len(announcements) : ~Fingerprintable(announcements[i])
    THEN <<>>
    ELSE [i \in 1..Len(announcements) |->
            [announcement |-> announcements[i],
             storage_id |-> GenerateId(exchange, announcements[i].id,
                              ParseDatetime(announcements[i].publish_time))]]

\* The (announcement, storage_id) pairs bulk_check_new computes: an item whose
\* publish_time or id is missing, or whose publish_time does not parse, is
\* skipped.
IdPairs(exchange, announcements) ==
    LET F[i \in 0..Len(announcements)] ==
          IF i = 0 THEN <<>>
          ELSE LET a == announcements[i]
               IN  IF Fingerprintable(a)
                   THEN Append(F[i - 1],
                               [announcement |-> a,
                                storage_id |-> GenerateId(exchange, a.id,
                                                 ParseDatetime(a.publish_time))])
                   ELSE F[i - 1]
    IN  F[Len(announcements)]

\* bulk_check_new raises when the pool gives no connection: pool.acquire()
\* is outside its try.  An empty list returns before that.
BulkCheckNewRaises(announcements, fault) ==
    announcements # <<>> /\ fault = "acquire"

\* A faulty variant of BulkCheckNewCalls: the connection is acquired before
\* the list is looked at.
BulkCheckNewCallsAcquiresFirst(exchange, announcements, fault) ==
    IF fault = "acquire" \/ \A i \in 1..Len(announcements) :
                              ~Fingerprintable(announcements[i])
    THEN <<"pool.acquire">>
    ELSE <<"pool.acquire", "conn.fetch">>

\* What bulk_check_new asks of the store, in order.
BulkCheckNewCalls(exchange, announcements, fault) ==
    IF announcements = <<>> THEN <<>>
    ELSE IF fault = "acquire" \/ \A i \in 1..Len(announcements) :
                                   ~Fingerprintable(announcements[i])
    THEN <<"pool.acquire">>
    ELSE <<"pool.acquire", "conn.fetch">>

\* A faulty variant of BulkCheckNewQueries: one existence query for each
\* fingerprint.
BulkCheckNewQueriesPerItem(exchange, announcements, fault) ==
    IF announcements = <<>> \/ fault = "acquire" THEN <<>>
    ELSE Bind(IdPairs(exchange, announcements),
              LAMBDA id_pairs :
                [i \in 1..Len(id_pairs) |-> <<id_pairs[i].storage_id>>])

\* The existence queries (conn.fetch) bulk_check_new sends, each as the
\* list of ids it asks for.
BulkCheckNewQueries(exchange, announcements, fault) ==
    IF announcements = <<>> \/ fault = "acquire" THEN <<>>
    ELSE Bind(IdPairs(exchange, announcements),
              LAMBDA id_pairs :
                IF id_pairs = <<>> THEN <<>>
                ELSE << [i \in 1..Len(id_pairs) |-> id_pairs[i].storage_id] >>)

\* A faulty variant of BulkCheckNew: the items found in the store are the ones kept.
BulkCheckNewKeepsExisting(db, exchange, announcements, fault) ==
    LET id_pairs == IdPairs(exchange, announcements)
        existing_ids == {r.id : r \in db.announcements}
        IsOld(p) == p.storage_id \in existing_ids
    IN  SelectSeq(id_pairs, IsOld)

\* AnnouncementStorage.bulk_check_new
BulkCheckNew(db, exchange, announcements, fault) ==
    IF announcements = <<>> THEN <<>>
    ELSE Bind(IdPairs(exchange, announcements),
              LAMBDA id_pairs :
                IF id_pairs = <<>> THEN <<>>
                ELSE IF fault = "query" THEN <<>>
                ELSE
                LET ids == {id_pairs[i].storage_id : i \in 1..Len(id_pairs)}
                    existing_ids == SelectExistingIds(db, ids)
                    IsNew(p) == p.storage_id \notin existing_ids
                IN  SelectSeq(id_pairs, IsNew))

(***************************************************************************)
(* The classification cache (RedisCache) and the classifier.  The cache is *)
(* a function from the keys it holds to the JSON text stored under each.   *)
(***************************************************************************)
\* hashlib.sha256(text.encode()).hexdigest()
MakeHashKey(text) == "sha256hex:" \o text

\* RedisCache.make_batch_keys
MakeBatchKeys(texts) == [i \in 1..Len(texts) |-> MakeHashKey(texts[i])]

\* json.dumps / json.loads of a classification result {label, confidence}.
DumpResult(r) == <<"json", r.label, r.confidence.num>>
LoadResult(j) == [label |-> j[2], confidence |-> Num(j[3])]

\* RedisCache.get_many: json.loads(item) if item else None, by position.
GetMany(cache_, keys) ==
    [i \in 1..Len(keys) |->
        IF keys[i] \in DOMAIN cache_ THEN LoadResult(cache_[keys[i]]) ELSE PyNone]

\* A faulty variant of SetMany: every key is paired with the first of the
\* classifier's results.
SetManyFirstResult(cache_, keys, values) ==
    LET ks == {keys[i] : i \in 1..Len(keys)}
    IN  [k \in DOMAIN cache_ \cup ks |->
            IF k \in ks THEN DumpResult(values[1]) ELSE cache_[k]]

\* RedisCache.set_many over dict(zip(keys, values)): a key that occurs twice
\* keeps its last value.
SetMany(cache_, keys, values) ==
    LET ks == {keys[i] : i \in 1..Len(keys)}
        Last(k) == CHOOSE i \in 1..Len(keys) :
                      /\ keys[i] = k
                      /\ \A j \in 1..Len(keys) : keys[j] = k => j <= i
    IN  [k \in DOMAIN cache_ \cup ks |->
            IF k \in ks THEN DumpResult(values[Last(k)]) ELSE cache_[k]]

\* The classifier's answer for a text: label_map[argmax] and the largest
\* softmax probability, a fixed function of the text.
Classify(text) ==
    CASE text = "X\nc1" -> [label |-> "trading", confidence |-> Num(90)]
      [] text = "X2\nc2" -> [label |-> "irrelevant", confidence |-> Num(80)]
      [] text = "X2\nc1" -> [label |-> "engineering", confidence |-> Num(45)]
      [] text = "X3\nc1" -> [label |-> "trading", confidence |-> Num(50)]
      [] text = "X3\nc2" -> [label |-> "engineering", confidence |-> Num(49)]
      [] OTHER -> [label |-> "engineering", confidence |-> Num(70)]

\* AnnouncementClassifier.predict_batch: one result per text, in order.
PredictBatch(texts) == [i \in 1..Len(texts) |-> Classify(texts[i])]

(***************************************************************************)
(* AnnouncementAnalyzer._process_batch, as a function of the store, the    *)
(* cache and the clock it finds and of the feed's batch.                   *)
(***************************************************************************)
\* f"{title}\n{content}"
TextOf(announcement) ==
    announcement.title \o "\n" \o
    (IF "content" \in DOMAIN announcement THEN announcement.content ELSE "")

\* A faulty variant of PassesGate: a confidence of exactly 0.50 passes.
PassesGateFromThreshold(classification) ==
    /\ Float(classification.confidence) >= ConfidenceThreshold
    /\ classification.label \notin {"irrelevant"}

\* The notification gate of _process_batch.
PassesGate(classification) ==
    /\ Float(classification.confidence) > ConfidenceThreshold
    /\ classification.label \notin {"irrelevant"}

\* Notifier.send(message, channel) takes no reply_markup: the call
\* notifier.send(message, channel=..., reply_markup=...) raises TypeError
\* before any message is sent, and _process_batch logs it.
SendOutcome(with_reply_markup) == IF with_reply_markup THEN "TypeError" ELSE "sent"

\* A faulty variant of ClassifyNew: the classifier's results are put after the
\* cache hits, in the order they come, not at the places of their items.
ClassifyNewAppends(cache_, texts) ==
    LET n == Len(texts)
        keys == MakeBatchKeys(texts)
        cached == GetMany(cache_, keys)
        to_predict == SelectSeq(keys, LAMBDA k : k \notin DOMAIN cache_)
        to_predict_texts ==
            SelectSeq(texts, LAMBDA t : MakeHashKey(t) \notin DOMAIN cache_)
        model_results == PredictBatch(to_predict_texts)
    IN  [results |-> SelectSeq(cached, LAMBDA c : c # PyNone) \o model_results,
         to_predict_texts |-> to_predict_texts,
         predict_calls |-> IF to_predict_texts = <<>> THEN <<>>
                           ELSE <<to_predict_texts>>,
         cache |-> IF to_predict_texts = <<>> THEN cache_
                   ELSE SetMany(cache_, to_predict, model_results)]

\* A faulty variant of ClassifyNew: the classifier is called for each missing
\* text on its own.
ClassifyNewOneByOne(cache_, texts) ==
    LET to_predict == SelectSeq(MakeBatchKeys(texts),
                                LAMBDA k : k \notin DOMAIN cache_)
        to_predict_texts ==
            SelectSeq(texts, LAMBDA t : MakeHashKey(t) \notin DOMAIN cache_)
        model_results == PredictBatch(to_predict_texts)
    IN  [results |-> [i \in 1..Len(texts) |->
                        IF MakeHashKey(texts[i]) \in DOMAIN cache_
                        THEN LoadResult(cache_[MakeHashKey(texts[i])])
                        ELSE Classify(texts[i])],
         to_predict_texts |-> to_predict_texts,
         predict_calls |-> [k \in 1..Len(to_predict_texts) |->
                              <<to_predict_texts[k]>>],
         cache |-> IF to_predict_texts = <<>> THEN cache_
                   ELSE SetMany(cache_, to_predict, model_results)]

\* The classification results of the new items: cache hits at their places,
\* the classifier's results for the misses at theirs (index_map).
ClassifyNew(cache_, texts) ==
    LET n == Len(texts)
        keys == MakeBatchKeys(texts)
        cached == GetMany(cache_, keys)
        IsMiss(i) == cached[i] = PyNone
        misses == {i \in 1..n : IsMiss(i)}
        \* position of item i among the misses
        NewIdx(i) == Cardinality({j \in misses : j < i}) + 1
        Orig(k) == CHOOSE i \in misses : NewIdx(i) = k
        to_predict == [k \in 1..Cardinality(misses) |-> keys[Orig(k)]]
        to_predict_texts == [k \in 1..Cardinality(misses) |-> texts[Orig(k)]]
        model_results == PredictBatch(to_predict_texts)
    IN  [results |-> [i \in 1..n |->
                        IF IsMiss(i) THEN model_results[NewIdx(i)] ELSE cached[i]],
         to_predict_texts |-> to_predict_texts,
         predict_calls |-> IF misses = {} THEN <<>> ELSE <<to_predict_texts>>,
         cache |-> IF misses = {} THEN cache_
                   ELSE SetMany(cache_, to_predict, model_results)]

\* One turn of the loop over zip(new_announcements, results): a
\* save_announcement in its own transaction at time now, then the gated
\* notification.  prev is what the turns before it have left.
SaveAndNotifyItem(prev, exchange, item, result, now) ==
    LET r == SaveAnnouncementResult(prev.db, exchange, item.announcement,
                                    result, item.storage_id, "none", now)
        notify == /\ PassesGate(result)
                  /\ "url" \in DOMAIN item.announcement
    IN  [db |-> r.db,
         saved |-> Append(prev.saved,
                     [storage_id |-> item.storage_id, ret |-> r.ret,
                      classification |-> result]),
         dispatched |->
             IF notify
             THEN Append(prev.dispatched,
                    [storage_id |-> item.storage_id,
                     label |-> result.label,
                     reply_markup |-> TRUE,
                     channel |-> IF result.label = "trading"
                                 THEN "Trading channel"
                                 ELSE "Engineering channel",
                     outcome |-> SendOutcome(TRUE)])
             ELSE prev.dispatched]

\* A faulty variant of SaveAndNotifyUpTo: the loop ends at the first
\* notification that fails.
RECURSIVE SaveAndNotifyUntilFailure(_, _, _, _, _, _)
SaveAndNotifyUntilFailure(n, db_, exchange, new, results, clock_) ==
    IF n = 0 THEN [db |-> db_, saved |-> <<>>, dispatched |-> <<>>]
    ELSE Bind(SaveAndNotifyUntilFailure(n - 1, db_, exchange, new, results, clock_),
              LAMBDA prev :
                IF \E k \in 1..Len(prev.dispatched) :
                     prev.dispatched[k].outcome # "sent"
                THEN prev
                ELSE SaveAndNotifyItem(prev, exchange, new[n], results[n],
                                       clock_ + n))

\* The loop over zip(new_announcements, results).
RECURSIVE SaveAndNotifyUpTo(_, _, _, _, _, _)
SaveAndNotifyUpTo(n, db_, exchange, new, results, clock_) ==
    IF n = 0 THEN [db |-> db_, saved |-> <<>>, dispatched |-> <<>>]
    ELSE Bind(SaveAndNotifyUpTo(n - 1, db_, exchange, new, results, clock_),
              LAMBDA prev : SaveAndNotifyItem(prev, exchange, new[n],
                                              results[n], clock_ + n))

SaveAndNotify(db_, exchange, new, results, clock_) ==
    SaveAndNotifyUpTo(Len(new), db_, exchange, new, results, clock_)

\* What a _process_batch that stops early leaves: nothing saved, nothing
\* dispatched, the store, the cache and the clock as they were.
StoppedBatch(db_, cache_, clock_, new, classified, calls, raised) ==
    [db |-> db_, cache |-> cache_, clock |-> clock_, new |-> new,
     results |-> <<>>, classified |-> classified,
     predict_calls |-> IF classified = <<>> THEN <<>> ELSE <<classified>>,
     saved |-> <<>>, dispatched |-> <<>>, calls |-> calls, raised |-> raised]

\* The calls the save loop makes, one save_announcement per new item and a
\* notifier.send for each dispatch.
SaveLoopCalls(w) ==
    [i \in 1..Len(w.saved) |-> "storage.save_announcement"]
    \o [i \in 1..Len(w.dispatched) |-> "notifier.send"]

\* _process_batch from the save loop on (lines 107-144): c is what the
\* cache lookup and the classifier have given for the new items.
SaveClassified(db_, clock_, exchange, new, c, calls, fault) ==
    IF fault = "save_acquire"
    THEN [StoppedBatch(db_, c.cache, clock_, new, c.to_predict_texts,
                       calls \o <<"storage.save_announcement">>, TRUE)
             EXCEPT !.results = c.results]
    ELSE Bind(SaveAndNotify(db_, exchange, new, c.results, clock_),
              LAMBDA w :
                [db |-> w.db, cache |-> c.cache, clock |-> clock_ + Len(new),
                 new |-> new, results |-> c.results,
                 classified |-> c.to_predict_texts,
                 predict_calls |-> c.predict_calls,
                 saved |-> w.saved, dispatched |-> w.dispatched,
                 calls |-> calls \o SaveLoopCalls(w), raised |-> FALSE])

\* _process_batch from the cache lookup on (lines 79-144), for the new items
\* bulk_check_new has returned; c0 are the calls made so far.
ClassifyAndSave(db_, cache_, clock_, exchange, new, c0, fault) ==
    LET texts == [i \in 1..Len(new) |-> TextOf(new[i].announcement)]
        c1 == c0 \o <<"cache.get_many">>
        c2 == c1 \o <<"model.predict_batch">>
        c3 == c2 \o <<"cache.set_many">>
    IN  IF new = <<>>
        THEN StoppedBatch(db_, cache_, clock_, new, <<>>, c0, FALSE)
        ELSE IF fault = "cache_get"
        THEN StoppedBatch(db_, cache_, clock_, new, <<>>, c1, TRUE)
        ELSE Bind(ClassifyNew(cache_, texts),
                  LAMBDA c :
                    IF c.to_predict_texts = <<>>
                    THEN SaveClassified(db_, clock_, exchange, new, c, c1, fault)
                    ELSE IF fault = "predict"
                    THEN StoppedBatch(db_, cache_, clock_, new,
                                      c.to_predict_texts, c2, TRUE)
                    ELSE IF fault = "cache_set"
                    THEN StoppedBatch(db_, cache_, clock_, new,
                                      c.to_predict_texts, c3, TRUE)
                    ELSE SaveClassified(db_, clock_, exchange, new, c, c3,
                                        fault))

\* AnnouncementAnalyzer._process_batch when one of the services it awaits
\* fails (fault): "bulk_acquire" and "bulk_query" in bulk_check_new,
\* "cache_get", "predict", "cache_set", and "save_acquire", the pool giving
\* no connection to save_announcement.  Only the query failure is caught;
\* the others leave _process_batch as an exception (raised).  calls lists
\* the services asked, in order.
ProcessBatchFaulty(db_, cache_, clock_, exchange, announcements, fault) ==
    LET bulk_fault == CASE fault = "bulk_acquire" -> "acquire"
                        [] fault = "bulk_query" -> "query"
                        [] OTHER -> "none"
        c0 == BulkCheckNewCalls(exchange, announcements, bulk_fault)
    IN  IF BulkCheckNewRaises(announcements, bulk_fault)
        THEN StoppedBatch(db_, cache_, clock_, <<>>, <<>>, c0, TRUE)
        ELSE Bind(BulkCheckNew(db_, exchange, announcements, bulk_fault),
                  LAMBDA new : ClassifyAndSave(db_, cache_, clock_, exchange,
                                               new, c0, fault))

\* AnnouncementAnalyzer._process_batch, every service answering.
ProcessBatchResult(db_, cache_, clock_, exchange, announcements) ==
    ProcessBatchFaulty(db_, cache_, clock_, exchange, announcements, "none")

(***************************************************************************)
(* State.                                                                  *)
(*   db     the store (committed state of the two tables)                  *)
(*   clock  the last value NOW() has taken; each transaction gets the next *)
(*   cache  the classification cache                                       *)
(*   fpq    the arguments of a fingerprint computation: a source, a native *)
(*          id and two publish-time inputs                                 *)
(*   fpr    its results, <<>> until it has run                             *)
(*   task   the asyncio task that runs AnnouncementAnalyzer.run: running,  *)
(*          crashed (an exception left run) or cancelled                   *)
(***************************************************************************)
VARIABLES db, clock, cache, fpq, fpr, task, pending, boot, last_fetch, run, callers, fanout, proc

\* The state of the application around the pipeline: pending is what the
\* _process_batch in progress has still to save, [feed, todo, saving]: the
\* (item, result) pairs the save loop has not yet saved and whether a
\* save_announcement is between its start and its end.  boot is how far
\* main.lifespan has come, [stage, pool]: starting, connected, serving or
\* startup_failed, and whether storage.pool is a working pool.  last_fetch is
\* the last call of a feed client's fetch_announcements: the client, the
\* API's response and what the call gave its caller.
\* run is the state of AnnouncementAnalyzer.run: where it is (pc: check,
\* digest, sleep), the wall clock (seconds since the start), now and
\* last_forex_sent as the code holds them, and for the properties the number
\* of announcement checks completed (tick), the digests triggered so far
\* (triggers, each with its tick and time) and how the last one went.
\* callers are two callers of save_announcement that run at the same time,
\* each with where its call is (pc), its arguments, the NOW() of its
\* transaction, the tables as its transaction sees them (tx), what it
\* returned and its place in the order of commits.
\* fanout is the asyncio.gather of _check_announcements: whether it is being
\* awaited, and for each feed how far its fetch has come (none, scheduled,
\* started, finished) and what it returned.
\* proc is the process that holds the AnnouncementAnalyzer: the analyzer's
\* seen_ids, and for the properties how many times the process has been
\* started.
appVars == <<pending, boot, last_fetch, run, callers, fanout, proc>>

vars == <<db, clock, cache, fpq, fpr, task, appVars>>

NoPending == [feed |-> "", todo |-> <<>>, saving |-> FALSE]
Serving == [stage |-> "serving", pool |-> TRUE]
NoFetch == [client |-> "", response |-> <<>>, result |-> <<>>]
NoRun == [pc |-> "", wall |-> 0, now |-> 0, last_forex_sent |-> PyNone,
          tick |-> 0, triggers |-> <<>>, last_send |-> ""]
NoCall == [pc |-> "idle", item |-> <<>>, classification |-> PyNone, now |-> 0,
           tx |-> [db |-> <<>>, aborted |-> FALSE], ret |-> FALSE, order |-> 0]
NoCalls == [c \in {1, 2} |-> NoCall]
NoFanout ==
    [stage |-> "idle",
     fetch |-> [f \in {"bybit", "newsapi", "marketaux"} |->
                  [pc |-> "none", result |-> <<>>]]]
\* AnnouncementAnalyzer.__init__ in the process started for the n-th time.
FreshAnalyzer(n) == [seen_ids |-> {}, starts |-> n]
InitApp ==
    /\ pending = NoPending /\ boot = Serving /\ last_fetch = NoFetch
    /\ run = NoRun /\ callers = NoCalls /\ fanout = NoFanout /\ proc = FreshAnalyzer(1)

EmptyCache == [k \in {} |-> <<>>]
NoQuery == [exchange |-> "", id |-> "", first |-> NoneTime, second |-> NoneTime]

(***************************************************************************)
(* Inputs.                                                                 *)
(***************************************************************************)
\* Source names _check_announcements passes to _process_batch.
Exchanges == {"bybit", "newsapi"}

\* An announcement as the feed clients standardise it.
Item(id, publish_time, title, content) ==
    [id |-> id, publish_time |-> publish_time, title |-> title,
     content |-> content, url |-> "http://" \o id, type |-> "news",
     raw_data |-> Payload(title \o "/" \o content)]

\* "a1" at T1 in two spellings of the same instant, with two titles and
\* contents; "a1" at another instant; "a2"; and an item whose publish time
\* does not parse.
ItemA1 == Item("a1", StrTime(T1, "Z"), "X", "c1")
ItemA1Changed == Item("a1", StrTime(T1 + Hour, "+01:00"), "X2", "c2")
ItemA1Later == Item("a1", IntTime(T2), "X2", "c1")
ItemA2 == Item("a2", StrTime(T1, ""), "X", "c1")
ItemBadTime == Item("a2", StrTime(T1, "yesterday"), "X", "c1")

\* An item without one of its keys.
Without(announcement, key) ==
    [k \in DOMAIN announcement \ {key} |-> announcement[k]]

\* An item a feed gives without a publish time.
ItemNoTime == Without(ItemA2, "publish_time")

\* Announcements that lack a required field of save_announcement.
MalformedItems ==
    {Without(ItemA1, "id"), Without(ItemA1, "title"), ItemNoTime}

Items == {ItemA1, ItemA1Changed, ItemA1Later, ItemA2, ItemBadTime}

\* What each feed may return.
FeedItems(exchange) == IF exchange = "bybit" THEN Items ELSE {ItemA1}

\* Classification results: None, the classifier's {label, confidence}, a
\* result without label and one whose confidence is no number.
Classifications ==
    { PyNone,
      [label |-> "trading", confidence |-> Num(90)],
      [label |-> "irrelevant", confidence |-> Num(40)],
      [label |-> "", confidence |-> Num(90)],
      [label |-> "engineering", confidence |-> NotNum] }

\* Labels a correction submits; "" is an empty label.
UserLabels == {"trading", "engineering", ""}

\* The statement of a call at which the store fails ("none": at none).
SaveFaults == {"none", "upsert", "classification"}
UpdateFaults == {"none", "update", "classification"}

\* The db_id the caller of save_announcement passes: the storage_id that
\* bulk_check_new gave it for the item, None for an item that has none.
DbIdOf(exchange, announcement) ==
    LET p == IdPairs(exchange, <<announcement>>)
    IN  IF p = <<>> THEN NULL ELSE p[1].storage_id

\* Every fingerprint of the inputs.
AllStorageIds ==
    {DbIdOf(e, a) : e \in Exchanges, a \in Items} \ {NULL}

\* The batches a feed may return in one fetch.
Batches(exchange) ==
    UNION {[1..n -> FeedItems(exchange)] : n \in 0..MaxBatch}

Init ==
    /\ db = EmptyDb
    /\ clock = 0
    /\ cache = EmptyCache
    /\ fpq = NoQuery
    /\ fpr = <<>>
    /\ task = "running"
    /\ InitApp

\* A call of save_announcement.
SaveAnnouncement(exchange, announcement, classification, db_id, fault) ==
    /\ clock < MaxClock
    /\ db' = SaveAnnouncementResult(db, exchange, announcement, classification,
                                    db_id, fault, clock + 1).db
    /\ clock' = clock + 1
    /\ UNCHANGED <<cache, fpq, fpr, task, appVars>>

\* A call of update_user_classification.
UpdateUserClassification(announcement_id, user_label, fault) ==
    /\ clock < MaxClock
    /\ db' = UpdateUserClassificationResult(db, announcement_id, user_label,
                                            fault, clock + 1).db
    /\ clock' = clock + 1
    /\ UNCHANGED <<cache, fpq, fpr, task, appVars>>

Next ==
    \/ \E e \in Exchanges, c \in Classifications, f \in SaveFaults :
         \E a \in FeedItems(e) \cup MalformedItems :
           SaveAnnouncement(e, a, c, DbIdOf(e, a), f)
    \/ \E id \in AllStorageIds, l \in UserLabels, f \in UpdateFaults :
         UpdateUserClassification(id, l, f)

Spec == Init /\ [][Next]_vars

(***************************************************************************)
(* The polling pipeline: every step is one _process_batch of one feed's    *)
(* batch; a cache entry may expire between two of them (set_many gives     *)
(* each entry a time to live).                                             *)
(***************************************************************************)
ProcessBatch(exchange, announcements) ==
    \E r \in {ProcessBatchResult(db, cache, clock, exchange, announcements)} :
        /\ r.clock <= MaxClock
        /\ db' = r.db
        /\ cache' = r.cache
        /\ clock' = r.clock
        /\ UNCHANGED <<fpq, fpr, task, appVars>>

CacheExpire(key) ==
    /\ key \in DOMAIN cache
    /\ cache' = [k \in DOMAIN cache \ {key} |-> cache[k]]
    /\ UNCHANGED <<db, clock, fpq, fpr, task, appVars>>

NextTicks ==
    \/ \E e \in Exchanges : \E b \in Batches(e) : ProcessBatch(e, b)
    \/ \E k \in DOMAIN cache : CacheExpire(k)

SpecTicks == Init /\ [][NextTicks]_vars

(***************************************************************************)
(* The polling loop AnnouncementAnalyzer.run: every iteration awaits       *)
(* _check_announcements, which gathers the three feeds' fetches and hands  *)
(* each non-empty result to _process_batch, bybit first, then newsapi,     *)
(* then marketaux.  Neither run nor _check_announcements catches anything. *)
(***************************************************************************)
\* The feeds in the order their batches are processed.
Feeds == <<"bybit", "newsapi", "marketaux">>

\* What a feed's API gives in one iteration: it fails, or a list of items.
ApiFails == [fails |-> TRUE, items |-> <<>>]
ApiGives(items) == [fails |-> FALSE, items |-> items]

\* The API outcomes of an iteration that are considered.
ApiOutcomes(feed) ==
    CASE feed = "bybit" ->
           {ApiFails, ApiGives(<<>>), ApiGives(<<ItemA1>>),
            ApiGives(<<ItemA2>>), ApiGives(<<ItemA1, ItemA2>>)}
      [] feed = "newsapi" -> {ApiFails, ApiGives(<<>>), ApiGives(<<ItemA1>>)}
      [] OTHER -> {ApiFails, ApiGives(<<>>), ApiGives(<<ItemA1>>)}

\* The service that fails in an iteration: none, or one kind of service
\* while one feed's batch is processed.
NoFault == [feed |-> "", kind |-> "none"]
BatchFaultKinds ==
    {"bulk_acquire", "bulk_query", "cache_get", "predict", "cache_set",
     "save_acquire"}
TickFaults ==
    {NoFault} \cup
    {[feed |-> "bybit", kind |-> k] : k \in BatchFaultKinds} \cup
    {[feed |-> "newsapi", kind |-> "cache_get"]}

\* A faulty variant of FetchAnnouncements: the exception of the API call
\* leaves fetch_announcements.
FetchAnnouncementsReraises(api) ==
    IF api.fails THEN [raised |-> TRUE, items |-> <<>>]
    ELSE [raised |-> FALSE, items |-> api.items]

\* fetch_announcements of a feed client: every exception of the API call is
\* caught inside and an empty list returned.
FetchAnnouncements(api) ==
    IF api.fails THEN [raised |-> FALSE, items |-> <<>>]
    ELSE [raised |-> FALSE, items |-> api.items]

\* One "if results: await self._process_batch(name, results)" of
\* _check_announcements, after what the ones before it have left (prev).
\* An entry of ran is a batch processed: the feed, what the batch found and
\* what _process_batch did.
RanBatch(prev, feed, r) ==
    [db |-> r.db, cache |-> r.cache, clock |-> r.clock, raised |-> r.raised,
     ran |-> Append(prev.ran,
                    [feed |-> feed,
                     before |-> [db |-> prev.db, cache |-> prev.cache,
                                 clock |-> prev.clock],
                     batch |-> r])]

CheckFeed(prev, feed, items, fault) ==
    IF prev.raised \/ items = <<>> THEN prev
    ELSE Bind(ProcessBatchFaulty(prev.db, prev.cache, prev.clock, feed, items,
                  IF fault.feed = feed THEN fault.kind ELSE "none"),
              LAMBDA r : RanBatch(prev, feed, r))

RECURSIVE CheckFeedsUpTo(_, _, _, _, _, _)
CheckFeedsUpTo(n, db_, cache_, clock_, fetched, fault) ==
    IF n = 0
    THEN [db |-> db_, cache |-> cache_, clock |-> clock_, raised |-> FALSE,
          ran |-> <<>>]
    ELSE Bind(CheckFeedsUpTo(n - 1, db_, cache_, clock_, fetched, fault),
              LAMBDA prev : CheckFeed(prev, Feeds[n], fetched[Feeds[n]].items,
                                      fault))

\* AnnouncementAnalyzer._check_announcements: asyncio.gather raises what a
\* fetch raises; otherwise the batches are processed in turn, and an
\* exception of one ends the method.  ran lists the batches processed.
CheckAnnouncementsResult(db_, cache_, clock_, api, fault) ==
    LET fetched == [f \in DOMAIN api |-> FetchAnnouncements(api[f])]
    IN  IF \E f \in DOMAIN api : fetched[f].raised
        THEN [db |-> db_, cache |-> cache_, clock |-> clock_, raised |-> TRUE,
              ran |-> <<>>]
        ELSE CheckFeedsUpTo(Len(Feeds), db_, cache_, clock_, fetched, fault)

\* The API outcomes of the three feeds in one iteration.
ApiResults == {api \in [{"bybit", "newsapi", "marketaux"} ->
                          UNION {ApiOutcomes(f) : f \in {"bybit", "newsapi", "marketaux"}}] :
                 \A f \in DOMAIN api : api[f] \in ApiOutcomes(f)}

\* One iteration of the while True of run: an exception of
\* _check_announcements leaves run and ends the task.
Tick(api, fault) ==
    /\ task = "running"
    /\ \E r \in {CheckAnnouncementsResult(db, cache, clock, api, fault)} :
         /\ r.clock <= MaxClock
         /\ db' = r.db
         /\ cache' = r.cache
         /\ clock' = r.clock
         /\ task' = IF r.raised THEN "crashed" ELSE "running"
    /\ UNCHANGED <<fpq, fpr, appVars>>

\* analyzer_task.cancel() at shutdown (main.lifespan).
Cancel ==
    /\ task = "running"
    /\ task' = "cancelled"
    /\ UNCHANGED <<db, clock, cache, fpq, fpr, appVars>>

NextLoop ==
    \/ \E api \in ApiResults, fault \in TickFaults : Tick(api, fault)
    \/ \E k \in DOMAIN cache : CacheExpire(k)
    \/ Cancel

SpecLoop == Init /\ [][NextLoop]_vars

(***************************************************************************)
(* The fingerprint of one announcement computed from two publish-time      *)
(* inputs, as bulk_check_new and save_announcement compute it:             *)
(* _parse_datetime, then _generate_id.                                     *)
(***************************************************************************)
\* The instants and the spellings the inputs are drawn from.  A spelling is
\* a kind of input and a UTC offset.
Instants == {T1, T1 + 23 * Hour + 59 * 60 + 59, T2}
Spellings ==
    {[kind |-> "strZ", tz |-> 0]}
    \cup {[kind |-> k, tz |-> o] : k \in {"str", "datetime"},
                                    o \in {0, Hour, 0 - Hour}}

\* The input that spells an instant: the wall-clock reading at the offset,
\* written with that offset.
Spell(instant, spelling) ==
    CASE spelling.kind = "strZ" -> StrTime(instant, "Z")
      [] spelling.kind = "str" ->
            StrTime(instant + spelling.tz, OffsetText(spelling.tz))
      [] spelling.kind = "datetime" ->
            DtTime(Aware(instant + spelling.tz, spelling.tz))

\* _generate_id(exchange, id, await _parse_datetime(value)); the text
\* "ValueError" stands for the exception a failed parse raises.
Fingerprint(exchange, id, dt_value) ==
    LET publish_time == ParseDatetime(dt_value)
    IN  IF publish_time = ValueError THEN "ValueError"
        ELSE GenerateId(exchange, id, publish_time)

InitFp ==
    /\ db = EmptyDb
    /\ clock = 0
    /\ cache = EmptyCache
    /\ fpr = <<>>
    /\ task = "running"
    /\ InitApp
    /\ \E e \in Exchanges, id \in {"a1", "a2"}, t \in Instants :
         \E s1 \in Spellings, s2 \in Spellings :
           fpq = [exchange |-> e, id |-> id,
                  first |-> Spell(t, s1), second |-> Spell(t, s2)]

ComputeFingerprints ==
    /\ fpr = <<>>
    /\ fpr' = <<Fingerprint(fpq.exchange, fpq.id, fpq.first),
                Fingerprint(fpq.exchange, fpq.id, fpq.second)>>
    /\ UNCHANGED <<db, clock, cache, fpq, task, appVars>>

NextFp == ComputeFingerprints

SpecFp == InitFp /\ [][NextFp]_vars

(***************************************************************************)
(* Properties.  A property of a call is stated over every call the         *)
(* program can make in the current state: the store the call would leave   *)
(* is computed with the operator the action uses.  The calls considered    *)
(* are those an action can still take (clock < MaxClock).                  *)
(***************************************************************************)
StoredIds(d) == {r.id : r \in d.announcements}
AutoRows(d, id) == {r \in d.classifications : r.announcement_id = id /\ ~r.is_user}
UserRows(d, id) == {r \in d.classifications : r.announcement_id = id /\ r.is_user}

\* The classifications that carry a label and a numeric confidence.
LabelledClassifications ==
    {c \in Classifications \ {PyNone} :
        c.label # "" /\ ~FloatRaises(c.confidence)}

\* The fingerprint bulk_check_new computes for an item; "ValueError" too for
\* an item without id or publish_time, which it skips in the same way.
FingerprintOf(exchange, announcement) ==
    IF {"id", "publish_time"} \subseteq DOMAIN announcement
    THEN Fingerprint(exchange, announcement.id, announcement.publish_time)
    ELSE "ValueError"

\* C1: the same instant given in two spellings (ISO text with Z, ISO text
\* with +00:00 or another offset, a timezone-aware datetime), parsed by
\* _parse_datetime and passed to _generate_id with the same source and
\* native id, yields the same fingerprint; so does the same input twice.
C1_SameInstantSameFingerprint ==
    fpr # <<>> => fpr[1] = fpr[2] /\ fpr[1] # "ValueError"

\* Both fingerprints are computed, from an ISO text and from an aware
\* datetime at a non-zero offset.
C1_Witness ==
    /\ fpr # <<>>
    /\ fpq.first.kind = "str"
    /\ fpq.second.kind = "datetime"
    /\ fpq.second.dt.tz # 0

\* C2: once an item is stored under its fingerprint, bulk_check_new for the
\* same source never returns an item with that native id and publish time
\* as new, whatever its other fields, and the stored fingerprint stays
\* stored; and a save_announcement for a stored (source, native id) with
\* changed content replaces the stored content.
C2_StoredIsNotNewAndResaveReplaces ==
    clock < MaxClock =>
      /\ \A e \in Exchanges : \A b \in Batches(e) :
           LET new == BulkCheckNew(db, e, b, "none")
           IN  \A k \in 1..Len(new) : new[k].storage_id \notin StoredIds(db)
      /\ \A e \in Exchanges, c \in Classifications :
           \A a \in FeedItems(e) :
             LET r == SaveAnnouncementResult(db, e, a, c, DbIdOf(e, a),
                                             "none", clock + 1)
             IN  /\ StoredIds(db) \subseteq StoredIds(r.db)
                 /\ (DbIdOf(e, a) # NULL
                       /\ RowsByPair(db.announcements, e, a.id) # {})
                    => \A row \in RowsByPair(r.db.announcements, e, a.id) :
                         row.content = a.content

\* C4: an announcement has at most one classification row with
\* is_user = false, and after a save_announcement that carries a
\* classification for a stored announcement that row holds the label and
\* confidence of this most recent call.
C4_OneAutomatedRowHoldingLatest ==
    /\ \A x \in db.classifications :
         Cardinality(AutoRows(db, x.announcement_id)) <= 1
    /\ clock < MaxClock =>
         \A e \in Exchanges, c \in LabelledClassifications :
           \A a \in FeedItems(e) :
             LET id == DbIdOf(e, a)
                 r == SaveAnnouncementResult(db, e, a, c, id, "none", clock + 1)
             IN  (id # NULL /\ id \in StoredIds(r.db)) =>
                   \E row \in r.db.classifications :
                     /\ AutoRows(r.db, id) = {row}
                     /\ row.label = c.label
                     /\ row.confidence = Float(c.confidence)
                     /\ row.classified_at = clock + 1

\* An automated row written by a save later than the one that inserted the
\* announcement.
C4_Witness ==
    \E a \in db.announcements : \E row \in AutoRows(db, a.id) :
      row.classified_at > a.created_at

\* C5: each update_user_classification on a stored announcement with a
\* label adds exactly one is_user = true row carrying that label and keeps
\* the earlier ones, so k calls leave k rows; the announcement's user_label
\* is the label of the last call.
C5_CorrectionsAccumulate ==
    clock < MaxClock =>
      \A id \in StoredIds(db), l \in UserLabels \ {""} :
        LET r == UpdateUserClassificationResult(db, id, l, "none", clock + 1)
            before == UserRows(db, id)
            after == UserRows(r.db, id)
        IN  /\ r.ret
            /\ before \subseteq after
            /\ Cardinality(after) = Cardinality(before) + 1
            /\ \A row \in after \ before :
                 row.label = l /\ row.classified_at = clock + 1
            /\ \A a \in RowsById(r.db.announcements, id) : a.user_label = l

\* Two corrections of one announcement with different labels: both rows are
\* there and user_label is the later one's.
C5_Witness ==
    \E a \in db.announcements : \E r1, r2 \in UserRows(db, a.id) :
      /\ r1.classified_at < r2.classified_at
      /\ r1.label # r2.label
      /\ a.user_label = r2.label
      /\ Cardinality(UserRows(db, a.id)) = 2

\* C6: update_user_classification leaves every is_user = false row (label,
\* confidence, classified_at) as it was.
C6_CorrectionKeepsAutomatedRows ==
    clock < MaxClock =>
      \A id \in AllStorageIds, l \in UserLabels, f \in UpdateFaults :
        LET r == UpdateUserClassificationResult(db, id, l, f, clock + 1)
        IN  {row \in r.db.classifications : ~row.is_user}
              = {row \in db.classifications : ~row.is_user}

\* An announcement with an automated row and a correction made after it.
C6_Witness ==
    \E a \in db.announcements :
      \E auto \in AutoRows(db, a.id), user \in UserRows(db, a.id) :
        user.classified_at > auto.classified_at

\* What a call made at transaction time now has left in the store.
AnnouncementWritten(d, now) == \E a \in d.announcements : a.updated_at = now
AutomatedRowWritten(d, now) ==
    \E row \in d.classifications : ~row.is_user /\ row.classified_at = now

\* C7: after a save_announcement that is given a classification, whether it
\* succeeds or fails at any statement, the announcement upsert and the
\* automated classification upsert are both applied or neither is.
C7_BothUpsertsOrNeither ==
    clock < MaxClock =>
      \A e \in Exchanges, f \in SaveFaults :
        \A c \in {x \in Classifications : Truthy(x)} :
          \A a \in FeedItems(e) :
            LET r == SaveAnnouncementResult(db, e, a, c, DbIdOf(e, a), f,
                                            clock + 1)
            IN  AnnouncementWritten(r.db, clock + 1)
                  <=> AutomatedRowWritten(r.db, clock + 1)

\* C8 as stated: a save_announcement for a stored (source, native id) leaves
\* the row's fingerprint, source, native id, title and publish time
\* unchanged.
C8_TitleAndPublishTimeKept ==
    clock < MaxClock =>
      \A e \in Exchanges, c \in Classifications, f \in SaveFaults :
        \A a \in FeedItems(e) :
          LET r == SaveAnnouncementResult(db, e, a, c, DbIdOf(e, a), f,
                                          clock + 1)
          IN  \A old \in RowsByPair(db.announcements, e, a.id) :
                \E new \in r.db.announcements :
                  /\ new.id = old.id
                  /\ new.exchange = old.exchange
                  /\ new.announcement_id = old.announcement_id
                  /\ new.title = old.title
                  /\ new.publish_time = old.publish_time

\* C8, amended: a save_announcement for a stored (source, native id) leaves
\* the row's fingerprint, source, native id, user_label and created_at
\* unchanged (publish time, title, content, source_id, url, type, tags, raw
\* payload and updated_at may change), and leaves every other row as it was.
C8_IdentityKept ==
    clock < MaxClock =>
      \A e \in Exchanges, c \in Classifications, f \in SaveFaults :
        \A a \in FeedItems(e) :
          LET r == SaveAnnouncementResult(db, e, a, c, DbIdOf(e, a), f,
                                          clock + 1)
          IN  /\ \A old \in RowsByPair(db.announcements, e, a.id) :
                   \E new \in r.db.announcements :
                     /\ new.id = old.id
                     /\ new.exchange = old.exchange
                     /\ new.announcement_id = old.announcement_id
                     /\ new.user_label = old.user_label
                     /\ new.created_at = old.created_at
              /\ db.announcements \ RowsByPair(db.announcements, e, a.id)
                   \subseteq r.db.announcements

\* A stored row that a later save has rewritten with another title.
C8_Witness ==
    \E row \in db.announcements :
      /\ row.updated_at > row.created_at
      /\ row.user_label = NULL
      /\ row.title = "X2"
      /\ row.id = DbIdOf(row.exchange, ItemA1)

\* C9: no two announcement rows share a fingerprint, no two share the pair
\* (source, native id), and no call changes the fingerprint of a stored row,
\* also not a save for the same source and native id with another publish
\* time.
C9_UniqueAndStableFingerprint ==
    /\ \A r1, r2 \in db.announcements :
         (\/ r1.id = r2.id
          \/ (r1.exchange = r2.exchange
                /\ r1.announcement_id = r2.announcement_id))
         => r1 = r2
    /\ clock < MaxClock =>
         /\ \A e \in Exchanges, c \in Classifications, f \in SaveFaults :
              \A a \in FeedItems(e) :
                LET r == SaveAnnouncementResult(db, e, a, c, DbIdOf(e, a), f,
                                                clock + 1)
                IN  \A old \in db.announcements :
                      \E new \in r.db.announcements :
                        /\ new.id = old.id
                        /\ new.exchange = old.exchange
                        /\ new.announcement_id = old.announcement_id
         /\ \A id \in AllStorageIds, l \in UserLabels, f \in UpdateFaults :
              LET r == UpdateUserClassificationResult(db, id, l, f, clock + 1)
              IN  \A old \in db.announcements :
                    \E new \in r.db.announcements :
                      /\ new.id = old.id
                      /\ new.exchange = old.exchange
                      /\ new.announcement_id = old.announcement_id

\* Two stored rows, one of them saved again with another publish time: its
\* fingerprint is still the one of its first publish time.
C9_Witness ==
    /\ Cardinality(db.announcements) >= 2
    /\ \E row \in db.announcements :
         /\ row.updated_at > row.created_at
         /\ row.id # GenerateId(row.exchange, row.announcement_id,
                                row.publish_time)

\* C10: bulk_check_new returns exactly the items whose computed fingerprint
\* is not stored, each paired with that fingerprint, in the order of the
\* input; an item whose fingerprint is not stored is always returned.
C10_ReturnsExactlyTheUnstored ==
    clock < MaxClock =>
      \A e \in Exchanges : \A b \in Batches(e) :
        LET new == BulkCheckNew(db, e, b, "none")
            keep == {i \in 1..Len(b) :
                       /\ FingerprintOf(e, b[i]) # "ValueError"
                       /\ FingerprintOf(e, b[i]) \notin StoredIds(db)}
            Nth(k) == CHOOSE i \in keep :
                        Cardinality({j \in keep : j < i}) = k - 1
        IN  /\ Len(new) = Cardinality(keep)
            /\ \A k \in 1..Len(new) :
                 new[k] = [announcement |-> b[Nth(k)],
                           storage_id |-> FingerprintOf(e, b[Nth(k)])]

\* A store and a batch of two different items of which bulk_check_new
\* returns one: the other one's fingerprint is stored.
C10_Witness ==
    \E e \in Exchanges : \E b \in Batches(e) :
      /\ Len(b) = 2
      /\ b[1] # b[2]
      /\ FingerprintOf(e, b[1]) \in StoredIds(db)
      /\ Len(BulkCheckNew(db, e, b, "none")) = 1
      /\ BulkCheckNew(db, e, b, "none")[1].announcement = b[2]

\* C3: in a tick whose batch holds an item that is already stored (same
\* source, native id and publish time, whatever its title), the item is not
\* returned by the novelty filter, not saved, not classified and not
\* notified about, and the stored title stays the one first stored.
C3_StoredItemIsLeftAlone ==
    \A e \in Exchanges : \A b \in Batches(e) :
      \A r \in {ProcessBatchResult(db, cache, clock, e, b)} :
          r.clock <= MaxClock =>
            /\ \A k \in 1..Len(r.classified) :
                 \E j \in 1..Len(r.new) :
                   r.classified[k] = TextOf(r.new[j].announcement)
            /\ Len(r.classified) <= Len(r.new)
            /\ \A i \in 1..Len(b) :
                 LET id == FingerprintOf(e, b[i])
                 IN  id \in StoredIds(db) =>
                       /\ \A k \in 1..Len(r.new) :
                            /\ r.new[k].storage_id # id
                            /\ r.new[k].announcement # b[i]
                       /\ \A k \in 1..Len(r.saved) : r.saved[k].storage_id # id
                       /\ \A k \in 1..Len(r.dispatched) :
                            r.dispatched[k].storage_id # id
                       /\ \A old \in RowsById(db.announcements, id) :
                            \E new \in RowsById(r.db.announcements, id) :
                              new.title = old.title

\* A tick whose batch holds a stored item under a changed title next to an
\* item that is new.
C3_Witness ==
    \E e \in Exchanges : \E b \in Batches(e) :
      /\ Len(b) = 2
      /\ \E row \in RowsById(db.announcements, FingerprintOf(e, b[1])) :
           row.title # b[1].title
      /\ Len(ProcessBatchResult(db, cache, clock, e, b).new) = 1
      /\ ProcessBatchResult(db, cache, clock, e, b).clock <= MaxClock

\* The feeds whose fetch gives nothing in an iteration, and the feeds whose
\* batch is handed to _process_batch.
EmptyFeeds(api) ==
    {Feeds[n] : n \in {m \in 1..Len(Feeds) :
                         FetchAnnouncements(api[Feeds[m]]).items = <<>>}}
RanFeeds(r) == {r.ran[i].feed : i \in 1..Len(r.ran)}

\* C11: bulk_check_new of an empty list returns the empty list without
\* acquiring a connection or sending a query, whether or not the pool and
\* the store answer; and in an iteration of the polling loop a feed whose
\* fetch gives nothing is not handed to _process_batch, so the store, the
\* cache and the classifier are not asked anything for it: when every feed
\* gives nothing, the iteration leaves store, cache and clock as they were.
C11_EmptyInputTouchesNothing ==
    /\ \A n \in 1..Len(Feeds), f \in {"none", "acquire", "query"} :
         /\ BulkCheckNew(db, Feeds[n], <<>>, f) = <<>>
         /\ BulkCheckNewCalls(Feeds[n], <<>>, f) = <<>>
         /\ ~BulkCheckNewRaises(<<>>, f)
    /\ \A api \in ApiResults, fault \in TickFaults :
         \A r \in {CheckAnnouncementsResult(db, cache, clock, api, fault)} :
           /\ RanFeeds(r) \cap EmptyFeeds(api) = {}
           /\ \A i \in 1..Len(r.ran) : r.ran[i].batch.new = <<>> =>
                /\ r.ran[i].batch.predict_calls = <<>>
                /\ r.ran[i].batch.saved = <<>>
                /\ r.ran[i].batch.cache = r.ran[i].before.cache
           /\ EmptyFeeds(api) = {Feeds[n] : n \in 1..Len(Feeds)} =>
                /\ r.ran = <<>>
                /\ ~r.raised
                /\ r.db = db /\ r.cache = cache /\ r.clock = clock

\* An iteration in which one feed gives nothing and another one's batch is
\* processed and saved, in a store that already holds an item.
C11_Witness ==
    /\ db.announcements # {}
    /\ \E api \in ApiResults :
         \E r \in {CheckAnnouncementsResult(db, cache, clock, api, NoFault)} :
           /\ api["bybit"] = ApiGives(<<>>)
           /\ r.clock <= MaxClock
           /\ \E i \in 1..Len(r.ran) :
                r.ran[i].feed = "newsapi" /\ r.ran[i].batch.saved # <<>>

\* Batches a feed may hand to _process_batch: items with equal and with
\* different texts, items whose publish time is missing or does not parse,
\* alone, first, in the middle and last, and items the classifier gives a
\* confidence of exactly 0.50 and of 0.49.
ItemAtThreshold == Item("a3", StrTime(T2, "Z"), "X3", "c1")
ItemBelowThreshold == Item("a4", StrTime(T2, "Z"), "X3", "c2")

FeedBatches ==
    {[feed |-> "bybit", items |-> b] :
        b \in {<<ItemA1>>, <<ItemA1, ItemA2>>, <<ItemA1Later, ItemA2>>,
               <<ItemAtThreshold, ItemA1>>, <<ItemBelowThreshold, ItemA1Changed>>,
               <<ItemA2, ItemA1Later>>, <<ItemA1Changed, ItemA2>>,
               <<ItemBadTime, ItemA1>>, <<ItemA1, ItemNoTime, ItemA1Later>>,
               <<ItemA2, ItemBadTime>>, <<ItemNoTime>>}} \cup
    {[feed |-> "newsapi", items |-> b] :
        b \in {<<ItemA1>>, <<ItemA1Changed, ItemNoTime>>}}

\* The items of a batch that have a fingerprint, in order.
WellFormed(feed, items) ==
    SelectSeq(items, LAMBDA a : FingerprintOf(feed, a) # "ValueError")

\* C12: when a batch holds items whose publish time is missing or does not
\* parse, bulk_check_new drops exactly those and raises nothing, and
\* _process_batch goes on with the others as if the malformed items were
\* not in the batch (same new items, same classifications, same saves, same
\* notifications, same store and cache afterwards): it raises nothing, it
\* calls save_announcement once for each of them, every call returns True,
\* and afterwards the store holds a row for each one's source and native id.
C12_MalformedItemsAreSkipped ==
    \A fb \in FeedBatches :
      \A r \in {ProcessBatchResult(db, cache, clock, fb.feed, fb.items)} :
        LET good == WellFormed(fb.feed, fb.items)
            fresh == SelectSeq(good, LAMBDA a :
                        FingerprintOf(fb.feed, a) \notin StoredIds(db))
            alone == ProcessBatchResult(db, cache, clock, fb.feed, good)
        IN  /\ ~r.raised
            /\ ~BulkCheckNewRaises(fb.items, "none")
            /\ r.new = [i \in 1..Len(fresh) |->
                          [announcement |-> fresh[i],
                           storage_id |-> FingerprintOf(fb.feed, fresh[i])]]
            /\ Len(r.saved) = Len(fresh)
            /\ \A i \in 1..Len(fresh) :
                 /\ r.saved[i].storage_id = FingerprintOf(fb.feed, fresh[i])
                 /\ r.saved[i].ret
                 /\ RowsByPair(r.db.announcements, fb.feed, fresh[i].id) # {}
            /\ [r EXCEPT !.calls = <<>>] = [alone EXCEPT !.calls = <<>>]

\* A batch of three items, the one in the middle without publish time, the
\* other two new, in a store that holds an item of the same feed.
C12_Witness ==
    /\ \E row \in db.announcements : row.exchange = "bybit"
    /\ \E fb \in FeedBatches :
         \E r \in {ProcessBatchResult(db, cache, clock, fb.feed, fb.items)} :
           /\ Len(fb.items) = 3
           /\ Len(WellFormed(fb.feed, fb.items)) = 2
           /\ Len(r.saved) = 2
           /\ r.clock <= MaxClock

\* C13: save_announcement of an announcement that lacks its native id, its
\* title or its publish time returns False, raises nothing and leaves the
\* store as it was, whatever the classification and the db_id passed with it
\* and whether or not the store would fail.
C13_MissingFieldReturnsFalse ==
    clock < MaxClock =>
      \A e \in Exchanges, c \in Classifications, f \in SaveFaults :
        \A a \in MalformedItems, id \in {NULL} \cup AllStorageIds :
          SaveAnnouncementResult(db, e, a, c, id, f, clock + 1)
            = [db |-> db, ret |-> FALSE]

\* A store that holds an item with an automated classification, and a call
\* for that item without its title, under its fingerprint and with a
\* classification, that returns False.
C13_Witness ==
    /\ clock < MaxClock
    /\ \E row \in db.announcements :
         /\ row.id = DbIdOf("bybit", ItemA1)
         /\ AutoRows(db, row.id) # {}
         /\ ~SaveAnnouncementResult(db, "bybit", Without(ItemA1, "title"),
                                    [label |-> "trading", confidence |-> Num(90)],
                                    row.id, "none", clock + 1).ret

\* The places of a sequence that satisfy Test, in increasing order.
Places(n, Test(_)) ==
    LET ps == {i \in 1..n : Test(i)}
    IN  [k \in 1..Cardinality(ps) |->
           CHOOSE i \in ps : Cardinality({j \in ps : j < i}) = k - 1]

\* C14: in _process_batch, whatever the new items' texts find in the cache,
\* there is one result per new item, and the result at place i is the
\* classification of the text of item i: the cached one when its key is in
\* the cache, the classifier's otherwise.  save_announcement is called for
\* item i with that result, the automated classification the call stores
\* is that result, and the notifications are those of the items whose
\* result passes the gate, in order, each for its item and under its label.
C14_ResultsStayWithTheirItems ==
    \A fb \in FeedBatches :
      \A r \in {ProcessBatchResult(db, cache, clock, fb.feed, fb.items)} :
        LET n == Len(r.new)
            Text(i) == TextOf(r.new[i].announcement)
            Expected(i) ==
                IF MakeHashKey(Text(i)) \in DOMAIN cache
                THEN LoadResult(cache[MakeHashKey(Text(i))])
                ELSE Classify(Text(i))
            sent == Places(n, LAMBDA i : PassesGate(Expected(i)))
        IN  n > 0 =>
            /\ Len(r.results) = n
            /\ Len(r.saved) = n
            /\ \A i \in 1..n :
                 /\ r.results[i] = Expected(i)
                 /\ r.saved[i].storage_id = r.new[i].storage_id
                 /\ r.saved[i].classification = Expected(i)
                 /\ \A row \in AutoRows(r.db, r.new[i].storage_id) :
                      row.classified_at = clock + i =>
                        /\ row.label = Expected(i).label
                        /\ row.confidence = Float(Expected(i).confidence)
                 /\ ( /\ RowsByPair(db.announcements, fb.feed,
                                     r.new[i].announcement.id) = {}
                      /\ \A j \in 1..n : j # i =>
                           r.new[j].announcement.id # r.new[i].announcement.id )
                    => \E row \in AutoRows(r.db, r.new[i].storage_id) :
                         row.classified_at = clock + i
            /\ Len(r.dispatched) = Len(sent)
            /\ \A k \in 1..Len(sent) :
                 /\ r.dispatched[k].storage_id = r.new[sent[k]].storage_id
                 /\ r.dispatched[k].label = Expected(sent[k]).label

\* A batch of two new items of which the first one's text is not in the
\* cache and the second one's is, the two classified differently.
C14_Witness ==
    \E fb \in FeedBatches :
      \E r \in {ProcessBatchResult(db, cache, clock, fb.feed, fb.items)} :
        /\ Len(r.new) = 2
        /\ r.clock <= MaxClock
        /\ MakeHashKey(TextOf(r.new[1].announcement)) \notin DOMAIN cache
        /\ MakeHashKey(TextOf(r.new[2].announcement)) \in DOMAIN cache
        /\ r.results[1] # r.results[2]
        /\ r.saved[2].classification = r.results[2]

\* C15: in one _process_batch the classifier is called at most once, with
\* exactly the texts of the new items whose key the cache does not hold, in
\* the order of the items; it is not called when the cache holds every key,
\* and then the cache is left as it was.  After a call the cache holds the
\* classifier's result for each of those texts under its key, and its other
\* entries are as before.
C15_OneClassifierCallForTheMisses ==
    \A fb \in FeedBatches :
      \A r \in {ProcessBatchResult(db, cache, clock, fb.feed, fb.items)} :
        LET n == Len(r.new)
            Text(i) == TextOf(r.new[i].announcement)
            missing == Places(n, LAMBDA i : MakeHashKey(Text(i)) \notin DOMAIN cache)
            asked == [k \in 1..Len(missing) |-> Text(missing[k])]
            Count(call) == Cardinality({i \in 1..Len(r.calls) : r.calls[i] = call})
        IN  /\ Len(r.predict_calls) <= 1
            /\ Count("model.predict_batch") = Len(r.predict_calls)
            /\ Count("cache.set_many") = Len(r.predict_calls)
            /\ Count("cache.get_many") = IF n > 0 THEN 1 ELSE 0
            /\ IF missing = <<>>
               THEN r.predict_calls = <<>> /\ r.cache = cache
               ELSE /\ r.predict_calls = <<asked>>
                    /\ DOMAIN r.cache =
                         DOMAIN cache \cup {MakeHashKey(asked[k]) : k \in 1..Len(asked)}
                    /\ \A k \in 1..Len(asked) :
                         r.cache[MakeHashKey(asked[k])] = DumpResult(Classify(asked[k]))
                    /\ \A key \in DOMAIN cache : r.cache[key] = cache[key]

\* A batch of two new items, the first one's text in the cache and the
\* second one's not: the classifier is called once, for the second text.
C15_Witness ==
    \E fb \in FeedBatches :
      \E r \in {ProcessBatchResult(db, cache, clock, fb.feed, fb.items)} :
        /\ Len(r.new) = 2
        /\ r.clock <= MaxClock
        /\ MakeHashKey(TextOf(r.new[1].announcement)) \in DOMAIN cache
        /\ r.predict_calls = <<(<<TextOf(r.new[2].announcement)>>)>>
        /\ MakeHashKey(TextOf(r.new[2].announcement)) \in DOMAIN r.cache \ DOMAIN cache

\* Classification results around the gate: every label at 0.49, 0.50, 0.51
\* and 0.99, and at 0.
GateInputs ==
    {[label |-> l, confidence |-> Num(c)] :
        l \in {"trading", "engineering", "irrelevant"},
        c \in {0, 49, 50, 51, 99}}

\* C16: notifier.send is not called for an item whose classification has a
\* confidence of 0.50 or less (0.49 and exactly 0.50 included) nor for one
\* labelled irrelevant, whatever its confidence: in _process_batch the
\* calls of send are those for the other new items, one each, in order; and
\* one turn of the save loop with such a classification calls send for
\* nothing.
C16_NoSendAtOrBelowThreshold ==
    /\ \A fb \in FeedBatches :
         \A r \in {ProcessBatchResult(db, cache, clock, fb.feed, fb.items)} :
           LET Blocked(i) ==
                   \/ Float(r.saved[i].classification.confidence) <= ConfidenceThreshold
                   \/ r.saved[i].classification.label = "irrelevant"
               open == Places(Len(r.saved), LAMBDA i : ~Blocked(i))
           IN  /\ Len(r.dispatched) = Len(open)
               /\ \A k \in 1..Len(open) :
                    r.dispatched[k].storage_id = r.saved[open[k]].storage_id
               /\ Cardinality({i \in 1..Len(r.calls) : r.calls[i] = "notifier.send"})
                    = Len(open)
    /\ \A g \in GateInputs :
         ( Float(g.confidence) <= ConfidenceThreshold \/ g.label = "irrelevant" )
         => SaveAndNotifyItem([db |-> db, saved |-> <<>>, dispatched |-> <<>>],
                              "bybit",
                              [announcement |-> ItemA1,
                               storage_id |-> DbIdOf("bybit", ItemA1)],
                              g, clock + 1).dispatched = <<>>

\* In a store that holds items, a batch of two new items, the first
\* classified with a confidence of exactly 0.50 and not notified about, the
\* second one notified about.
C16_Witness ==
    /\ db.announcements # {}
    /\ \E fb \in FeedBatches :
      \E r \in {ProcessBatchResult(db, cache, clock, fb.feed, fb.items)} :
        /\ Len(r.saved) = 2
        /\ r.clock <= MaxClock
        /\ Float(r.saved[1].classification.confidence) = ConfidenceThreshold
        /\ r.saved[1].classification.label = "trading"
        /\ Len(r.dispatched) = 1
        /\ r.dispatched[1].storage_id = r.saved[2].storage_id

\* C17: a new item classified trading with a confidence above 0.50 leads to
\* exactly one call of notifier.send, for the trading channel and carrying
\* the correction controls, and that call sends the message (the channel
\* accepting every message it is given).
C17_TradingItemIsSentOnce ==
    \A fb \in FeedBatches :
      \A r \in {ProcessBatchResult(db, cache, clock, fb.feed, fb.items)} :
        \A i \in 1..Len(r.saved) :
          ( /\ r.saved[i].classification.label = "trading"
            /\ Float(r.saved[i].classification.confidence) > ConfidenceThreshold )
          => LET calls == {k \in 1..Len(r.dispatched) :
                             r.dispatched[k].storage_id = r.saved[i].storage_id}
             IN  /\ Cardinality(calls) = 1
                 /\ \A k \in calls :
                      /\ r.dispatched[k].channel = "Trading channel"
                      /\ r.dispatched[k].reply_markup
                      /\ r.dispatched[k].outcome = "sent"

\* C18: when the notification for a new item fails (notifier.send raises or
\* returns False), _process_batch raises nothing, and every item after it
\* in the batch is still saved (save_announcement is called for it and
\* returns True, and the store holds a row for its source and native id)
\* and, when its classification passes the gate, notifier.send is called
\* for it.
C18_FailedSendDoesNotStopTheBatch ==
    \A fb \in FeedBatches :
      \A r \in {ProcessBatchResult(db, cache, clock, fb.feed, fb.items)} :
        \A i \in 1..Len(r.new) :
          ( \E k \in 1..Len(r.dispatched) :
              /\ r.dispatched[k].storage_id = r.new[i].storage_id
              /\ r.dispatched[k].outcome # "sent" )
          => /\ ~r.raised
             /\ Len(r.saved) = Len(r.new)
             /\ r.clock = clock + Len(r.new)
             /\ \A j \in (i + 1)..Len(r.new) :
                  /\ r.saved[j].storage_id = r.new[j].storage_id
                  /\ r.saved[j].ret
                  /\ RowsByPair(r.db.announcements, fb.feed,
                                r.new[j].announcement.id) # {}
                  /\ ( /\ Float(r.results[j].confidence) > ConfidenceThreshold
                       /\ r.results[j].label # "irrelevant" )
                     => \E k \in 1..Len(r.dispatched) :
                          r.dispatched[k].storage_id = r.new[j].storage_id

\* In a store that holds items, a batch of two new items that both pass the
\* gate: the notification for the first fails, the second is saved and
\* notifier.send is called for it.
C18_Witness ==
    /\ db.announcements # {}
    /\ \E fb \in FeedBatches :
         \E r \in {ProcessBatchResult(db, cache, clock, fb.feed, fb.items)} :
           /\ Len(r.new) = 2
           /\ r.clock <= MaxClock
           /\ Len(r.dispatched) = 2
           /\ r.dispatched[1].outcome = "TypeError"
           /\ r.dispatched[2].storage_id = r.new[2].storage_id
           /\ r.saved[2].ret

\* C19: when the fetch of one feed fails in an iteration of the loop, that
\* feed contributes the empty list, nothing is raised out of
\* _check_announcements, and the results of the other feeds are processed
\* as they are when the failing feed has nothing to report: each non-empty
\* one is handed to _process_batch, in the order of the feeds.
C19_FailedFetchIsAnEmptyResult ==
    \A api \in ApiResults :
      (\E f \in DOMAIN api : api[f].fails) =>
        \A r \in {CheckAnnouncementsResult(db, cache, clock, api, NoFault)} :
          LET quiet == [f \in DOMAIN api |->
                          IF api[f].fails THEN ApiGives(<<>>) ELSE api[f]]
              given == Places(Len(Feeds), LAMBDA n :
                          ~api[Feeds[n]].fails /\ api[Feeds[n]].items # <<>>)
          IN  /\ ~r.raised
              /\ \A f \in DOMAIN api : api[f].fails =>
                   FetchAnnouncements(api[f]) = [raised |-> FALSE, items |-> <<>>]
              /\ Len(r.ran) = Len(given)
              /\ \A k \in 1..Len(given) :
                   /\ r.ran[k].feed = Feeds[given[k]]
                   /\ r.ran[k].batch =
                        ProcessBatchResult(r.ran[k].before.db, r.ran[k].before.cache,
                                           r.ran[k].before.clock, Feeds[given[k]],
                                           api[Feeds[given[k]]].items)
              /\ r = CheckAnnouncementsResult(db, cache, clock, quiet, NoFault)

\* In a store that holds items, an iteration in which the fetch of bybit
\* fails and the item newsapi gives is new and is saved.
C19_Witness ==
    /\ db.announcements # {}
    /\ \E api \in ApiResults :
         \E r \in {CheckAnnouncementsResult(db, cache, clock, api, NoFault)} :
           /\ api["bybit"].fails
           /\ ~api["newsapi"].fails
           /\ r.clock <= MaxClock
           /\ Len(r.ran) >= 1
           /\ r.ran[1].feed = "newsapi"
           /\ Len(r.ran[1].batch.saved) = 1
           /\ r.db # db

\* C20: when a cache read, a classifier call or a store call fails during an
\* iteration of the polling loop, the loop does not end: the failed unit is
\* skipped and the next iteration runs after the sleep; the loop ends only
\* when its task is cancelled.  So the task is running until it is
\* cancelled, and no exception ever ends it.
C20_LoopEndsOnlyWhenCancelled ==
    task \in {"running", "cancelled"}

\* C21: when cache.set_many fails in a _process_batch, the batch does not
\* fail: nothing is raised, save_announcement is called for every new item
\* with its classification (the cached one, or the one the classifier has
\* just given), and notifier.send is called for every one that passes the
\* gate.
C21_CacheWriteFailureKeepsTheBatch ==
    \A fb \in FeedBatches :
      \A r \in {ProcessBatchFaulty(db, cache, clock, fb.feed, fb.items, "cache_set")} :
        LET ok == ProcessBatchResult(db, cache, clock, fb.feed, fb.items)
        IN  /\ ~r.raised
            /\ r.new = ok.new
            /\ r.saved = ok.saved
            /\ r.dispatched = ok.dispatched
            /\ r.db = ok.db

(***************************************************************************)
(* _process_batch step by step, with the shutdown of main.lifespan beside  *)
(* it.  The analyzer task gives up control at each await, and there        *)
(* analyzer_task.cancel() can reach it: CancelledError is raised at that   *)
(* await.  It is no Exception, so no except of the pipeline catches it; an *)
(* open transaction is rolled back as the exception leaves its block.      *)
(***************************************************************************)
\* _process_batch from its start to the save loop (lines 74-105).
StartBatch(fb) ==
    /\ task = "running"
    /\ pending = NoPending
    /\ \E new \in {BulkCheckNew(db, fb.feed, fb.items, "none")} :
         /\ new # <<>>
         /\ clock + Len(new) <= MaxClock
         /\ \E c \in {ClassifyNew(cache,
                        [i \in 1..Len(new) |-> TextOf(new[i].announcement)])} :
              /\ cache' = c.cache
              /\ pending' = [feed |-> fb.feed,
                             todo |-> [i \in 1..Len(new) |->
                                         [item |-> new[i], result |-> c.results[i]]],
                             saving |-> FALSE]
    /\ UNCHANGED <<db, clock, fpq, fpr, task, boot, last_fetch, run, callers, fanout, proc>>

\* save_announcement is called for the next pair: it awaits a connection
\* and opens its transaction.
BeginSave ==
    /\ task = "running"
    /\ pending.todo # <<>>
    /\ ~pending.saving
    /\ pending' = [pending EXCEPT !.saving = TRUE]
    /\ UNCHANGED <<db, clock, cache, fpq, fpr, task, boot, last_fetch, run, callers, fanout, proc>>

\* The statements of that save_announcement and its commit, then the gated
\* notification (which awaits nothing: the call raises at once).
EndSave ==
    /\ task = "running"
    /\ pending.saving
    /\ db' = SaveAndNotifyItem([db |-> db, saved |-> <<>>, dispatched |-> <<>>],
                               pending.feed, Head(pending.todo).item,
                               Head(pending.todo).result, clock + 1).db
    /\ clock' = clock + 1
    /\ pending' = IF Len(pending.todo) = 1 THEN NoPending
                  ELSE [pending EXCEPT !.todo = Tail(pending.todo),
                                       !.saving = FALSE]
    /\ UNCHANGED <<cache, fpq, fpr, task, boot, last_fetch, run, callers, fanout, proc>>

NextSteps ==
    \/ \E fb \in FeedBatches : StartBatch(fb)
    \/ BeginSave
    \/ EndSave
    \/ Cancel

SpecSteps == Init /\ [][NextSteps]_vars

\* C22: when the task is cancelled at shutdown, the batch in progress has
\* run to its end: the cancellation takes effect between ticks only, never
\* between the start and the end of a save_announcement and never between
\* two items of a batch.  So the cancelled task has left nothing of a batch
\* unsaved.
C22_CancelledBetweenTicksOnly ==
    task = "cancelled" => pending = NoPending

(***************************************************************************)
(* The startup of main.lifespan: storage.connect(), then, inside its try,  *)
(* telegram_bot.start() and the creation of the task that runs             *)
(* analyzer.run.  An exception of any of them leaves lifespan.             *)
(***************************************************************************)
\* What storage.connect() may meet: nothing, create_pool raising, a CREATE
\* TABLE of _ensure_tables_exist raising, or a CREATE INDEX raising, which
\* _ensure_tables_exist logs and passes over.
ConnectOutcomes == {"ok", "create_pool", "create_table", "create_index"}

\* A faulty variant of ConnectResult: lifespan goes on after a connect that
\* has raised.
ConnectResultGoesOn(outcome) ==
    [stage |-> "connected", pool |-> outcome \in {"ok", "create_index"}]

\* lifespan after "await storage.connect()".
ConnectResult(outcome) ==
    IF outcome \in {"ok", "create_index"}
    THEN [stage |-> "connected", pool |-> TRUE]
    ELSE [stage |-> "startup_failed", pool |-> FALSE]

InitBoot ==
    /\ db = EmptyDb
    /\ clock = 0
    /\ cache = EmptyCache
    /\ fpq = NoQuery
    /\ fpr = <<>>
    /\ task = "unstarted"
    /\ pending = NoPending
    /\ boot = [stage |-> "starting", pool |-> FALSE]
    /\ last_fetch = NoFetch
    /\ run = NoRun /\ callers = NoCalls /\ fanout = NoFanout /\ proc = FreshAnalyzer(1)

\* await storage.connect()
Connect(outcome) ==
    /\ boot.stage = "starting"
    /\ boot' = ConnectResult(outcome)
    /\ UNCHANGED <<db, clock, cache, fpq, fpr, task, pending, last_fetch, run, callers, fanout, proc>>

\* await telegram_bot.start(), then asyncio.create_task(analyzer.run(...)):
\* when the bot fails to start the exception is logged and raised again,
\* and no task is created.
StartServices(bot_starts) ==
    /\ boot.stage = "connected"
    /\ boot' = [boot EXCEPT !.stage = IF bot_starts THEN "serving"
                                      ELSE "startup_failed"]
    /\ task' = IF bot_starts THEN "running" ELSE task
    /\ UNCHANGED <<db, clock, cache, fpq, fpr, pending, last_fetch, run, callers, fanout, proc>>

NextBoot ==
    \/ \E outcome \in ConnectOutcomes : Connect(outcome)
    \/ \E bot_starts \in BOOLEAN : StartServices(bot_starts)
    \/ NextLoop

SpecBoot == InitBoot /\ [][NextBoot]_vars

\* C23: the task that runs the polling loop exists only after
\* storage.connect() has completed with a working pool; and when connect
\* fails at boot the application does not start: there is no task, nothing
\* of an iteration has happened and none can happen.
C23_LoopOnlyAfterConnect ==
    /\ task # "unstarted" => boot.stage = "serving" /\ boot.pool
    /\ boot.stage # "serving" =>
         /\ task = "unstarted"
         /\ db = EmptyDb /\ cache = EmptyCache /\ clock = 0
         /\ ~ENABLED (\E api \in ApiResults, fault \in TickFaults : Tick(api, fault))
    /\ boot.stage = "startup_failed" => ~ENABLED NextBoot

\* The connection to the store has failed at boot.
C23_Witness ==
    boot = [stage |-> "startup_failed", pool |-> FALSE]

(***************************************************************************)
(* The correction controls.  A notification carries two buttons whose      *)
(* callback data are 'label|engineering|<id>' and 'label|trading|<id>'     *)
(* (analyzer.py 127-134); Notifier._handle_button_press is the only        *)
(* CallbackQueryHandler of the bot.  Callback data are modelled as the     *)
(* sequence of their '|' separated parts.                                  *)
(***************************************************************************)
CallbackData(label, announcement_id) == <<"label", label, announcement_id>>

\* Notifier._handle_button_press on a store d: 'refresh_news' reads the
\* latest announcements, 'refresh_forex' sends the digest, anything else
\* is answered with 'Unknown command.'.  No branch writes to the store.
HandleButtonPress(d, data) ==
    IF data = <<"refresh_news">>
    THEN [db |-> d, reply |-> IF d.announcements = {}
                              THEN "No recent announcements found."
                              ELSE "Latest Announcements"]
    ELSE IF data = <<"refresh_forex">>
    THEN [db |-> d, reply |-> "forex"]
    ELSE [db |-> d, reply |-> "Unknown command."]

\* C24: when a correction control of a stored announcement is activated,
\* update_user_classification(id, label) is applied to the store: the
\* announcement's user_label is that label and there is a new is_user row
\* carrying it.
C24_ButtonPressRecordsTheCorrection ==
    clock < MaxClock =>
      \A id \in StoredIds(db), l \in UserLabels \ {""} :
        \A r \in {HandleButtonPress(db, CallbackData(l, id))} :
          /\ r.db = UpdateUserClassificationResult(db, id, l, "none", clock + 1).db
          /\ \A a \in RowsById(r.db.announcements, id) : a.user_label = l
          /\ \E row \in UserRows(r.db, id) \ UserRows(db, id) : row.label = l

(***************************************************************************)
(* Standardisation of a feed payload (BaseExchangeClient, used as it is by *)
(* BybitClient), followed by the fingerprint the store computes for it.    *)
(***************************************************************************)
\* The UTC offset of the process's local time zone, which
\* datetime.fromtimestamp and datetime.now apply.
LocalOffsets == {0, Hour}

\* A payload as the API gives it; timestamp is NoneTime for a payload
\* without "dateTimestamp" and "publish_time".
RawItem(id, timestamp, title, description) ==
    [id |-> id, dateTimestamp |-> timestamp, title |-> title,
     description |-> description, url |-> "http://" \o id]

RawItems ==
    { RawItem("a1", IntTime(T1), "X", "c1"),
      RawItem("a1", StrTime(T1, "+01:00"), "X", "c1"),
      RawItem("a2", StrTime(T1, ""), "X2", "c2"),
      RawItem("a2", StrTime(T1, "yesterday"), "X", "c1"),
      RawItem("a3", NoneTime, "X", "c1") }

\* BaseExchangeClient.standardize_response at the instant now, in a process
\* whose local time is local seconds ahead of UTC; None when it fails.
StandardizeResponse(item, now, local) ==
    LET timestamp == item.dateTimestamp
        publish_time ==
            CASE timestamp.kind = "int" -> Naive(timestamp.k + local)
              [] timestamp.kind = "str" ->
                    FromIsoFormat(timestamp.wall, timestamp.suffix)
              [] OTHER -> Naive(now + local)
    IN  IF publish_time = ValueError THEN PyNone
        ELSE [id |-> item.id, title |-> item.title,
              content |-> item.description,
              publish_time |-> DtTime(publish_time),
              url |-> item.url, type |-> "news",
              raw_data |-> Payload(item.title \o "/" \o item.description)]

\* C25: a payload seen in two fetches (at T2 and one polling interval of
\* 300 seconds later) is standardised to the same publish time and gets the
\* same fingerprint in both, with or without a timestamp in the payload, so
\* that once the first is stored bulk_check_new does not report the second
\* as new.
C25_SamePayloadSameFingerprint ==
    \A item \in RawItems, local \in LocalOffsets :
      \A first \in {StandardizeResponse(item, T2, local)},
         second \in {StandardizeResponse(item, T2 + 300, local)} :
        first # PyNone =>
          /\ second # PyNone
          /\ first.publish_time = second.publish_time
          /\ DbIdOf("bybit", first) = DbIdOf("bybit", second)
          /\ clock < MaxClock =>
               \A stored \in {SaveAnnouncementResult(db, "bybit", first,
                                 [label |-> "trading", confidence |-> Num(90)],
                                 DbIdOf("bybit", first), "none", clock + 1)} :
                 DbIdOf("bybit", first) \in StoredIds(stored.db) =>
                   BulkCheckNew(stored.db, "bybit", <<second>>, "none") = <<>>

\* The store accepts the writes of a save_announcement: neither the
\* announcement upsert nor the classification upsert is rejected.
WritesAccepted(d, exchange, announcement, classification, db_id, now) ==
    LET publish_time == ParseDatetime(announcement.publish_time)
        id == IF db_id # NULL /\ db_id # "" THEN db_id
              ELSE GenerateId(exchange, announcement.id, publish_time)
        row == AnnouncementRow(exchange, announcement, id, publish_time)
        tx1 == Execute(Begin(d), UpsertAnnouncement(d, row, now), FALSE)
    IN  /\ ~tx1.aborted
        /\ ~SaveClassification(tx1, id, classification, FALSE, now, FALSE).aborted

\* C26: for an announcement with a native id, a title and a publish time
\* that parses, and a classification {label, confidence}, save_announcement
\* (called with or without the fingerprint) returns True when the store
\* accepts its writes, and the announcement row and its automated
\* classification row, with the label and confidence given, are stored.
C26_SaveStoresBothRows ==
    clock < MaxClock =>
      \A e \in Exchanges, c \in LabelledClassifications :
        \A a \in {x \in FeedItems(e) : Fingerprintable(x)} :
          \A db_id \in {DbIdOf(e, a), NULL} :
            WritesAccepted(db, e, a, c, db_id, clock + 1) =>
              \A r \in {SaveAnnouncementResult(db, e, a, c, db_id, "none",
                                               clock + 1)} :
                /\ r.ret
                /\ \E row \in RowsById(r.db.announcements, DbIdOf(e, a)) :
                     /\ row.exchange = e /\ row.announcement_id = a.id
                     /\ row.title = a.title /\ row.updated_at = clock + 1
                /\ \E row \in AutoRows(r.db, DbIdOf(e, a)) :
                     /\ row.label = c.label
                     /\ row.confidence = Float(c.confidence)
                     /\ row.classified_at = clock + 1

\* A save with a classification has stored both rows in one transaction.
C26_Witness ==
    \E a \in db.announcements : \E row \in AutoRows(db, a.id) :
      /\ row.classified_at = a.updated_at
      /\ row.label = "trading"

(***************************************************************************)
(* The feed clients' fetch_announcements, from the response of the API to  *)
(* the list handed to _check_announcements.  A response is [kind, items]:  *)
(* the call raises (auth_error, transport_error), the API answers with an  *)
(* error status (error_status), or it answers with a list of payloads.     *)
(***************************************************************************)
Clients == {"bybit", "newsapi", "marketaux"}
ResponseKinds == {"auth_error", "transport_error", "error_status", "ok"}

\* NewsAPI articles; the third has no 'url', the fourth no 'publishedAt'.
NewsArticle(url, publishedAt, title) ==
    [url |-> url, publishedAt |-> publishedAt, title |-> title,
     description |-> "c1"]
NewsArticles ==
    { NewsArticle("http://n1", StrTime(T1, "Z"), "X"),
      NewsArticle("http://n2", StrTime(T2, "Z"), "X2"),
      Without(NewsArticle("http://n3", StrTime(T1, "Z"), "X"), "url"),
      Without(NewsArticle("http://n4", StrTime(T1, "Z"), "X"), "publishedAt"),
      NewsArticle("http://n1", StrTime(T1, "yesterday"), "X") }

\* Marketaux articles; the third has no 'published_at', the fourth one that
\* is no ISO text, the fifth no 'uuid'.
MarketauxArticle(uuid, published_at, title) ==
    [uuid |-> uuid, published_at |-> published_at, title |-> title,
     description |-> "c1", url |-> "http://" \o uuid]
MarketauxArticles ==
    { MarketauxArticle("m1", StrTime(T1, "+00:00"), "X"),
      MarketauxArticle("m2", StrTime(T2, ""), "X2"),
      Without(MarketauxArticle("m3", StrTime(T1, ""), "X"), "published_at"),
      MarketauxArticle("m4", StrTime(T1, "yesterday"), "X"),
      Without(MarketauxArticle("m5", StrTime(T1, "+01:00"), "X"), "uuid") }

\* The payloads a client's API may list, and its responses.
Payloads(client) ==
    CASE client = "bybit" -> RawItems
      [] client = "newsapi" -> NewsArticles
      [] OTHER -> MarketauxArticles
Responses(client) ==
    {[kind |-> k, items |-> <<>>] : k \in ResponseKinds \ {"ok"}} \cup
    {[kind |-> "ok", items |-> l] :
        l \in UNION {[1..n -> Payloads(client)] : n \in 0..MaxBatch}}

\* The empty text an absent 'publishedAt' or 'published_at' is read as.
EmptyText == StrTime(0, "(empty)")

\* NewsAPIClient.standardize_response: item['url'] of an article without
\* url raises KeyError, which is caught; None is returned.
NewsStandardizeResponse(item) ==
    IF "url" \notin DOMAIN item THEN PyNone
    ELSE [id |-> "md5:" \o item.url, title |-> item.title,
          content |-> item.description,
          publish_time |-> IF "publishedAt" \in DOMAIN item
                           THEN item.publishedAt ELSE EmptyText,
          url |-> item.url, source |-> "newsapi",
          raw_data |-> Payload(item.title)]

\* MarketauxClient.standardize_response: datetime.fromisoformat stands
\* before the try and raises ValueError to the caller; the dict display
\* inside the try only reads the item.
MarketauxStandardizeResponse(item) ==
    LET published_at == IF "published_at" \in DOMAIN item
                        THEN item.published_at ELSE EmptyText
        publish_time == FromIsoFormat(published_at.wall, published_at.suffix)
    IN  IF publish_time = ValueError THEN ValueError
        ELSE [id |-> Get(item, "uuid"), title |-> item.title,
              content |-> item.description,
              publish_time |-> DtTime(publish_time), type |-> "news",
              url |-> item.url, source |-> "marketaux",
              raw_data |-> Payload(item.title)]

\* What fetch_announcements gives its caller: a list, returned.
Returns(items) == [raised |-> FALSE, items |-> items]

\* A faulty variant of FetchBybit: the list is built without
\* "if self.standardize_response(item)".
FetchBybitUnfiltered(response, now, local) ==
    IF response.kind # "ok" THEN Returns(<<>>)
    ELSE Returns([i \in 1..Len(response.items) |->
                     StandardizeResponse(response.items[i], now, local)])

\* BybitClient.fetch_announcements: an exception of the API call and a
\* retCode other than 0 give []; the payloads that standardise are listed.
FetchBybit(response, now, local) ==
    IF response.kind # "ok" THEN Returns(<<>>)
    ELSE LET standardized == [i \in 1..Len(response.items) |->
                 StandardizeResponse(response.items[i], now, local)]
             Kept(x) == x # PyNone
         IN  Returns(SelectSeq(standardized, Kept))

\* NewsAPIClient.fetch_announcements: the newsapi client raises on an error
\* status as on any other failure, which gives []; the articles that
\* standardise are listed.
FetchNewsApi(response) ==
    IF response.kind # "ok" THEN Returns(<<>>)
    ELSE LET standardized == [i \in 1..Len(response.items) |->
                 NewsStandardizeResponse(response.items[i])]
             Kept(x) == x # PyNone
         IN  Returns(SelectSeq(standardized, Kept))

\* MarketauxClient.fetch_announcements: an exception of the request, a
\* status other than 200 and an exception of a standardize_response give [].
FetchMarketaux(response) ==
    IF response.kind # "ok" THEN Returns(<<>>)
    ELSE LET standardized == [i \in 1..Len(response.items) |->
                 MarketauxStandardizeResponse(response.items[i])]
         IN  IF \E i \in 1..Len(standardized) : standardized[i] = ValueError
             THEN Returns(<<>>)
             ELSE Returns(standardized)

\* A call of a client's fetch_announcements.
Fetch(client, response, now, local) ==
    /\ last_fetch' =
         [client |-> client, response |-> response,
          result |-> CASE client = "bybit" -> FetchBybit(response, now, local)
                       [] client = "newsapi" -> FetchNewsApi(response)
                       [] OTHER -> FetchMarketaux(response)]
    /\ UNCHANGED <<db, clock, cache, fpq, fpr, task, pending, boot, run, callers, fanout, proc>>

NextFeeds ==
    \E client \in Clients, local \in LocalOffsets :
      \E response \in Responses(client) : Fetch(client, response, T2, local)

SpecFeeds == Init /\ [][NextFeeds]_vars

\* C27: fetch_announcements of each feed client never raises into its
\* caller: it returns a list, which is empty when the API call fails or
\* answers with an error status, and which has no None entry whatever
\* payloads the API lists.
C27_FetchReturnsAListWithoutNone ==
    last_fetch # NoFetch =>
      LET items == last_fetch.result.items
      IN  /\ ~last_fetch.result.raised
          /\ DOMAIN items = 1..Len(items)
          /\ \A i \in DOMAIN items : items[i] # PyNone /\ items[i] # ValueError
          /\ last_fetch.response.kind # "ok" => items = <<>>
          /\ Len(items) <= Len(last_fetch.response.items)

\* A Bybit response of two payloads of which one does not standardise: the
\* list returned holds the other one.
C27_Witness ==
    /\ last_fetch.client = "bybit"
    /\ last_fetch.response.kind = "ok"
    /\ Len(last_fetch.response.items) = 2
    /\ Len(last_fetch.result.items) = 1

(***************************************************************************)
(* AnnouncementAnalyzer.run with its digest: each iteration awaits         *)
(* _check_announcements (the batches, step by step as above), reads the    *)
(* wall clock, awaits _send_forex_events when the digest is due, and       *)
(* sleeps.  asyncio.sleep returns after the interval or later.             *)
(***************************************************************************)
\* Iterations of run in one behaviour.
MaxTicks == 4

\* Seconds between two digests, and the interval main.lifespan gives run.
DigestPeriod == 3600
IntervalSeconds == 300

\* How long a sleep may take, and what _send_forex_events may meet: the
\* digest is sent, there is no event to send, get_formatted_events or
\* notifier.send raises.
SleepTimes == {IntervalSeconds, DigestPeriod}
DigestOutcomes == {"sent", "no_message", "fails"}

\* The batches a check processes in this specification.
RunBatches == {fb \in FeedBatches : fb.items \in {<<ItemA1>>, <<ItemA1, ItemA2>>}}

\* A faulty variant of DigestDue: the digest waits for more than the period.
DigestDueAfterThePeriod(last_forex_sent, now) ==
    \/ last_forex_sent = PyNone
    \/ now - last_forex_sent.num > DigestPeriod

\* self.last_forex_sent is None or now - self.last_forex_sent >= 3600
DigestDue(last_forex_sent, now) ==
    \/ last_forex_sent = PyNone
    \/ now - last_forex_sent.num >= DigestPeriod

InitRun ==
    /\ db = EmptyDb
    /\ clock = 0
    /\ cache = EmptyCache
    /\ fpq = NoQuery
    /\ fpr = <<>>
    /\ task = "running"
    /\ pending = NoPending /\ boot = Serving /\ last_fetch = NoFetch
    /\ callers = NoCalls /\ fanout = NoFanout /\ proc = FreshAnalyzer(1)
    /\ run = [NoRun EXCEPT !.pc = "check"]

\* A batch of the check in progress begins.
CheckBatch(fb) == run.pc = "check" /\ StartBatch(fb)

\* _check_announcements returns; now = time.time(); the digest is begun
\* when it is due.
CheckReturns ==
    /\ task = "running" /\ run.pc = "check" /\ pending = NoPending
    /\ run.tick < MaxTicks
    /\ run' = IF DigestDue(run.last_forex_sent, run.wall)
              THEN [run EXCEPT !.pc = "digest", !.now = run.wall,
                               !.tick = run.tick + 1,
                               !.triggers = Append(run.triggers,
                                   [tick |-> run.tick + 1, at |-> run.wall])]
              ELSE [run EXCEPT !.pc = "sleep", !.now = run.wall,
                               !.tick = run.tick + 1]
    /\ UNCHANGED <<db, clock, cache, fpq, fpr, task, pending, boot, last_fetch, callers, fanout, proc>>

\* _send_forex_events returns, every exception caught inside it;
\* self.last_forex_sent = now.
SendForexEvents(outcome) ==
    /\ task = "running" /\ run.pc = "digest"
    /\ run' = [run EXCEPT !.pc = "sleep", !.last_forex_sent = Num(run.now),
                          !.last_send = outcome]
    /\ UNCHANGED <<db, clock, cache, fpq, fpr, task, pending, boot, last_fetch, callers, fanout, proc>>

\* await asyncio.sleep(interval_seconds)
Sleep(seconds) ==
    /\ task = "running" /\ run.pc = "sleep"
    /\ run' = [run EXCEPT !.pc = "check", !.wall = run.wall + seconds,
                          !.last_send = ""]
    /\ UNCHANGED <<db, clock, cache, fpq, fpr, task, pending, boot, last_fetch, callers, fanout, proc>>

NextRun ==
    \/ \E fb \in RunBatches : CheckBatch(fb)
    \/ BeginSave
    \/ EndSave
    \/ CheckReturns
    \/ \E outcome \in DigestOutcomes : SendForexEvents(outcome)
    \/ \E seconds \in SleepTimes : Sleep(seconds)
    \/ Cancel

SpecRun == InitRun /\ [][NextRun]_vars

\* The digests triggered before the iteration in progress, and in it.
EarlierTriggers == SelectSeq(run.triggers, LAMBDA t : t.tick < run.tick)
TriggersOfTick(n) == {i \in DOMAIN run.triggers : run.triggers[i].tick = n}

\* C28: in an iteration whose announcement check has returned, the digest
\* is triggered exactly when none was triggered before or the last trigger
\* is at least 3600 seconds old: so in the first iteration, at most once in
\* an iteration, and with at least 3600 seconds between two triggers.  It
\* is triggered after the iteration's check, while no batch is in progress,
\* and a failure while sending it leaves the loop running.
C28_DigestEveryPeriod ==
    /\ run.pc \in {"digest", "sleep"} =>
         (TriggersOfTick(run.tick) # {}
            <=> \/ EarlierTriggers = <<>>
                \/ run.now - EarlierTriggers[Len(EarlierTriggers)].at >= DigestPeriod)
    /\ run.tick >= 1 => run.triggers # <<>> /\ run.triggers[1].tick = 1
    /\ \A n \in 1..MaxTicks + 1 : Cardinality(TriggersOfTick(n)) <= 1
    /\ \A i \in DOMAIN run.triggers : i > 1 =>
         run.triggers[i].at - run.triggers[i - 1].at >= DigestPeriod
    /\ run.pc = "digest" =>
         pending = NoPending /\ TriggersOfTick(run.tick) # {}
    /\ pending # NoPending => run.pc = "check"
    /\ run.last_send = "fails" =>
         task \in {"running", "cancelled"} /\ run.pc = "sleep"

\* The second digest, triggered exactly 3600 seconds after the first, has
\* failed, and the loop has gone on to its sleep.
C28_Witness ==
    /\ Len(run.triggers) >= 2
    /\ run.triggers[2].at - run.triggers[1].at = DigestPeriod
    /\ run.pc = "sleep" /\ run.last_send = "fails"
    /\ db.announcements # {}

\* C29: a call of bulk_check_new sends at most one existence query, which
\* asks for every fingerprint the call has computed, however many items it
\* is given; it sends none when no item of the list can be fingerprinted.
\* The items it returns are those whose fingerprint that query did not find.
C29_OneExistenceQuery ==
    \A fb \in FeedBatches, f \in {"none", "query"} :
      \A q \in {BulkCheckNewQueries(fb.feed, fb.items, f)},
         id_pairs \in {IdPairs(fb.feed, fb.items)} :
        /\ Len(q) <= 1
        /\ Len(q) = Cardinality({i \in 1..Len(BulkCheckNewCalls(fb.feed, fb.items, f)) :
                                   BulkCheckNewCalls(fb.feed, fb.items, f)[i] = "conn.fetch"})
        /\ (\A i \in 1..Len(fb.items) : ~Fingerprintable(fb.items[i])) => q = <<>>
        /\ id_pairs # <<>> =>
             /\ Len(q) = 1
             /\ q[1] = [i \in 1..Len(id_pairs) |-> id_pairs[i].storage_id]
             /\ f = "none" =>
                  BulkCheckNew(db, fb.feed, fb.items, f) =
                    SelectSeq(id_pairs,
                              LAMBDA p : p.storage_id \notin
                                 SelectExistingIds(db, {q[1][i] : i \in 1..Len(q[1])}))

\* A list of three items of which two can be fingerprinted, one of them
\* stored: the one query asks for both fingerprints.
C29_Witness ==
    \E fb \in FeedBatches :
      \E q \in {BulkCheckNewQueries(fb.feed, fb.items, "none")} :
        /\ Len(fb.items) = 3
        /\ Len(q) = 1 /\ Len(q[1]) = 2
        /\ q[1][1] \in StoredIds(db) /\ q[1][2] \notin StoredIds(db)

(***************************************************************************)
(* Two save_announcement calls at the same time, each on its own           *)
(* connection and in its own transaction (READ COMMITTED).  The store is   *)
(* PostgreSQL: a statement that meets a row written by a transaction still *)
(* in progress waits for that transaction to end.  INSERT ... ON CONFLICT  *)
(* (exchange, announcement_id) first looks for a conflicting row in the    *)
(* arbiter index and updates it when there is one; otherwise it inserts,   *)
(* and the insertion enters the primary-key index first, where a duplicate *)
(* id is an error, not a conflict to resolve.                              *)
(***************************************************************************)
\* The arguments of the calls: one (source, native id, instant), two
\* contents, two classifications.
RaceItems == {ItemA1, ItemA1Changed}
RaceClassifications ==
    {[label |-> "trading", confidence |-> Num(90)],
     [label |-> "engineering", confidence |-> Num(60)]}

Other(c) == 3 - c

\* The call holds the announcement row: written, not yet committed.
Holds(c) == callers[c].pc \in {"written", "classified"}

\* The row the call hands to its upsert.
RowOf(c) ==
    AnnouncementRow("bybit", callers[c].item, DbIdOf("bybit", callers[c].item),
                    ParseDatetime(callers[c].item.publish_time))

\* save_announcement is called: pool.acquire(), BEGIN.
BeginCall(c, announcement, classification) ==
    /\ callers[c].pc \in {"idle", "done"}
    /\ clock < MaxClock
    /\ clock' = clock + 1
    /\ callers' = [callers EXCEPT ![c] =
                     [NoCall EXCEPT !.pc = "begun", !.item = announcement,
                                    !.classification = classification,
                                    !.now = clock + 1]]
    /\ UNCHANGED <<db, cache, fpq, fpr, task, pending, boot, last_fetch, run, fanout, proc>>

\* The upsert looks for a conflicting row: it finds one and updates it, or
\* finds none and goes on to insert.
UpsertCheck(c) ==
    /\ callers[c].pc = "begun"
    /\ ~Holds(Other(c))
    /\ callers' = [callers EXCEPT ![c] =
         IF RowsByPair(db.announcements, "bybit", callers[c].item.id) # {}
         THEN [callers[c] EXCEPT !.pc = "written",
                        !.tx = Execute(Begin(db),
                                       UpsertAnnouncement(db, RowOf(c), callers[c].now),
                                       FALSE)]
         ELSE [callers[c] EXCEPT !.pc = "checked"]]
    /\ UNCHANGED <<db, clock, cache, fpq, fpr, task, pending, boot, last_fetch, run, fanout, proc>>

\* The upsert inserts: a row with its id committed since it looked is a
\* violation of announcements_pkey, which save_announcement catches.
UpsertInsert(c) ==
    /\ callers[c].pc = "checked"
    /\ ~Holds(Other(c))
    /\ callers' = [callers EXCEPT ![c] =
         IF RowsById(db.announcements, RowOf(c).id) # {}
         THEN [callers[c] EXCEPT !.pc = "failed",
                        !.tx = Execute(Begin(db),
                                       SqlError(db, "unique_violation"), FALSE)]
         ELSE [callers[c] EXCEPT !.pc = "written",
                        !.tx = Execute(Begin(db),
                                       UpsertAnnouncement(db, RowOf(c), callers[c].now),
                                       FALSE)]]
    /\ UNCHANGED <<db, clock, cache, fpq, fpr, task, pending, boot, last_fetch, run, fanout, proc>>

\* _save_classification inside the call's transaction.
ClassifyCall(c) ==
    /\ callers[c].pc = "written"
    /\ callers' = [callers EXCEPT ![c] =
         [callers[c] EXCEPT !.pc = "classified",
                   !.tx = SaveClassification(callers[c].tx, RowOf(c).id,
                              callers[c].classification, FALSE, callers[c].now, FALSE)]]
    /\ UNCHANGED <<db, clock, cache, fpq, fpr, task, pending, boot, last_fetch, run, fanout, proc>>

\* The call leaves its transaction block and returns: True after the
\* statements, False from its exception handler.
ReturnCall(c) ==
    /\ callers[c].pc \in {"classified", "failed"}
    /\ db' = IF callers[c].pc = "failed" THEN db ELSE Commit(db, callers[c].tx)
    /\ callers' = [callers EXCEPT ![c] =
         [callers[c] EXCEPT !.pc = "done", !.ret = (callers[c].pc = "classified"),
                   !.order = callers[Other(c)].order + 1]]
    /\ UNCHANGED <<clock, cache, fpq, fpr, task, pending, boot, last_fetch, run, fanout, proc>>

NextRace ==
    \E c \in {1, 2} :
      \/ \E a \in RaceItems, cl \in RaceClassifications : BeginCall(c, a, cl)
      \/ UpsertCheck(c)
      \/ UpsertInsert(c)
      \/ ClassifyCall(c)
      \/ ReturnCall(c)

SpecRace == Init /\ [][NextRace]_vars

\* C30: when two save_announcement calls for one (source, native id,
\* publish time) with different content and classification have run at the
\* same time, in whatever interleaving, both have returned True and the
\* store holds one announcement row and one automated classification row
\* for the fingerprint, carrying what the call that finished last wrote.
C30_ConcurrentSavesLastWriterWins ==
    (/\ callers[1].pc = "done" /\ callers[2].pc = "done"
     /\ callers[1].item # callers[2].item
     /\ callers[1].classification # callers[2].classification) =>
      LET last == IF callers[1].order > callers[2].order THEN 1 ELSE 2
          id == DbIdOf("bybit", callers[last].item)
      IN  /\ callers[1].ret /\ callers[2].ret
          /\ Cardinality(RowsById(db.announcements, id)) = 1
          /\ Cardinality(AutoRows(db, id)) = 1
          /\ \A row \in RowsById(db.announcements, id) :
               /\ row.title = callers[last].item.title
               /\ row.content = callers[last].item.content
          /\ \A row \in AutoRows(db, id) :
               row.label = callers[last].classification.label

\* C31: in an iteration of the polling loop the batches of the feeds are
\* independent: when the processing of one feed's batch fails with an
\* exception, every other feed whose fetch gave something in this iteration
\* is still handed to _process_batch.
C31_FeedBatchesAreIndependent ==
    \A api \in ApiResults, fault \in TickFaults :
      \A r \in {CheckAnnouncementsResult(db, cache, clock, api, fault)} :
        \A n \in 1..Len(Feeds) :
          (Feeds[n] # fault.feed /\ Feeds[n] \notin EmptyFeeds(api)) =>
            Feeds[n] \in RanFeeds(r)

\* ---------------------------------------------------------------------
\* The fan-out of _check_announcements, step by step: asyncio.gather wraps
\* the three fetch_announcements() coroutines into tasks before it is
\* awaited, the event loop runs the first step of each task in the order they
\* were made, a fetch finishes when its API call has answered, and gather
\* returns when all three have finished.

\* The first step of the fetch task of Feeds[n] can be run: the tasks made
\* before it have had their first step (the loop's ready queue is first in,
\* first out); none of them has to have finished.
ReadyToStartInTurn(fetch, n) ==
    \A m \in 1..(n - 1) : fetch[Feeds[m]].pc = "finished"
ReadyToStart(fetch, n) ==
    \A m \in 1..(n - 1) : fetch[Feeds[m]].pc # "scheduled"

\* asyncio.gather(...) is called: the three tasks are made and scheduled,
\* and _check_announcements starts to wait for them.
GatherFetches ==
    /\ task = "running"
    /\ fanout.stage = "idle"
    /\ fanout' = [stage |-> "waiting",
                  fetch |-> [f \in DOMAIN fanout.fetch |->
                               [pc |-> "scheduled", result |-> <<>>]]]
    /\ UNCHANGED <<db, clock, cache, fpq, fpr, task, pending, boot,
                   last_fetch, run, callers, proc>>

\* The first step of the fetch task of Feeds[n]: the API call is under way.
StartFetch(n) ==
    /\ fanout.stage = "waiting"
    /\ fanout.fetch[Feeds[n]].pc = "scheduled"
    /\ ReadyToStart(fanout.fetch, n)
    /\ fanout' = [fanout EXCEPT !.fetch[Feeds[n]].pc = "started"]
    /\ UNCHANGED <<db, clock, cache, fpq, fpr, task, pending, boot,
                   last_fetch, run, callers, proc>>

\* The API call of a feed answers (api) and its fetch_announcements returns.
FinishFetch(feed, api) ==
    /\ fanout.stage = "waiting"
    /\ fanout.fetch[feed].pc = "started"
    /\ fanout' = [fanout EXCEPT !.fetch[feed] =
                    [pc |-> "finished",
                     result |-> FetchAnnouncements(api).items]]
    /\ UNCHANGED <<db, clock, cache, fpq, fpr, task, pending, boot,
                   last_fetch, run, callers, proc>>

\* gather returns: every fetch has finished, the results are unpacked.
GatherReturns ==
    /\ fanout.stage = "waiting"
    /\ \A f \in DOMAIN fanout.fetch : fanout.fetch[f].pc = "finished"
    /\ fanout' = [fanout EXCEPT !.stage = "processing"]
    /\ UNCHANGED <<db, clock, cache, fpq, fpr, task, pending, boot,
                   last_fetch, run, callers, proc>>

\* The three "if results: await self._process_batch(...)" that follow.
ProcessFetched ==
    /\ fanout.stage = "processing"
    /\ \E r \in {CheckFeedsUpTo(Len(Feeds), db, cache, clock,
                                [f \in DOMAIN fanout.fetch |->
                                   [raised |-> FALSE,
                                    items |-> fanout.fetch[f].result]],
                                NoFault)} :
         /\ r.clock <= MaxClock
         /\ db' = r.db
         /\ cache' = r.cache
         /\ clock' = r.clock
    /\ fanout' = NoFanout
    /\ UNCHANGED <<fpq, fpr, task, pending, boot, last_fetch, run, callers, proc>>

NextFanOut ==
    \/ GatherFetches
    \/ \E n \in 1..Len(Feeds) : StartFetch(n)
    \/ \E f \in DOMAIN fanout.fetch : \E api \in ApiOutcomes(f) :
         FinishFetch(f, api)
    \/ GatherReturns
    \/ ProcessFetched

SpecFanOut == Init /\ [][NextFanOut]_vars

\* C32: in an iteration the fetches of all the feeds are started before
\* _check_announcements waits for any of them: while it waits every fetch
\* has been scheduled, and the fetch whose turn it is to start can start
\* whatever the fetches before it are doing, finished or not; and the
\* batches are processed only when every fetch of the iteration has finished.
C32_FetchesStartTogether ==
    /\ fanout.stage = "waiting" =>
         \A f \in DOMAIN fanout.fetch : fanout.fetch[f].pc # "none"
    /\ \A n \in 1..Len(Feeds) :
         (/\ fanout.stage = "waiting"
          /\ fanout.fetch[Feeds[n]].pc = "scheduled"
          /\ \A m \in 1..(n - 1) : fanout.fetch[Feeds[m]].pc # "scheduled")
           => ENABLED StartFetch(n)
    /\ fanout.stage = "processing" =>
         \A f \in DOMAIN fanout.fetch : fanout.fetch[f].pc = "finished"

\* A fetch is started while the fetch before it is still under way.
C32_Witness ==
    /\ fanout.stage = "waiting"
    /\ fanout.fetch["bybit"].pc = "started"
    /\ fanout.fetch["newsapi"].pc = "started"
    /\ fanout.fetch["marketaux"].pc = "finished"

\* The texts of the items the feeds give.
FeedTexts ==
    UNION {{TextOf(b.items[i]) : i \in 1..Len(b.items)} : b \in FeedBatches}

\* Every entry of a cache is the classifier's result for the text whose hash
\* is the entry's key.
CacheHoldsResults(cache_) ==
    \A k \in DOMAIN cache_ :
      \E text \in FeedTexts :
        /\ MakeHashKey(text) = k
        /\ LoadResult(cache_[k]) = Classify(text)

\* C33: with the classifier a fixed function of the text, every entry of
\* the cache is the classifier's result for the text whose hash is the
\* entry's key, now and after any batch is processed; so what _process_batch
\* persists and dispatches for a batch, with hits, misses and expired entries
\* as they come, is what it persists and dispatches with an empty cache.
C33_CacheIsTransparent ==
    /\ CacheHoldsResults(cache)
    /\ \A b \in FeedBatches :
         \A r \in {ProcessBatchResult(db, cache, clock, b.feed, b.items)},
            e \in {ProcessBatchResult(db, EmptyCache, clock, b.feed, b.items)} :
           /\ CacheHoldsResults(r.cache)
           /\ r.db = e.db
           /\ r.results = e.results
           /\ r.dispatched = e.dispatched
           /\ r.saved = e.saved

\* A store with classifications and a batch with a new item whose
\* classification comes from the cache alone and is saved, while the entry
\* of another text is not (or no longer) in the cache.
C33_Witness ==
    /\ db.classifications # {}
    /\ \E b \in FeedBatches :
         \A r \in {ProcessBatchResult(db, cache, clock, b.feed, b.items)} :
           /\ r.new # <<>>
           /\ r.predict_calls = <<>>
           /\ r.db.classifications # db.classifications
    /\ \E text \in FeedTexts : MakeHashKey(text) \notin DOMAIN cache

\* ---------------------------------------------------------------------
\* The fingerprint of one instant given as an integer in two units.

\* Instants, in thousands of seconds since the epoch: from 1970 to 2038, with
\* those around 1e9 seconds (2001-09-09T01:46:40Z), whose milliseconds are
\* around 1e12.  The instants from 1970-01-25 to 1978-01-11 are left out:
\* their milliseconds, read as seconds, are a time between the years 2038
\* and 9999, beyond the numbers of the model.
EpochInstants ==
    {1, 60, 1000, 2147, 253403, 946684, 999999, 1000000, 1000001, 1500000,
     1700000, 1704067, 2000000, 2147483}

\* The integer that gives an instant in seconds and the one that gives it in
\* milliseconds.
EpochSeconds(j) == IntTime(j)
EpochMillis(j) == IntTime(1000 * j)

InitEpoch ==
    /\ db = EmptyDb
    /\ clock = 0
    /\ cache = EmptyCache
    /\ fpr = <<>>
    /\ task = "running"
    /\ InitApp
    /\ \E e \in Exchanges, id \in {"a1", "a2"}, j \in EpochInstants :
         \/ fpq = [exchange |-> e, id |-> id,
                   first |-> EpochSeconds(j), second |-> EpochMillis(j)]
         \/ fpq = [exchange |-> e, id |-> id,
                   first |-> EpochMillis(j), second |-> EpochSeconds(j)]

SpecEpoch == InitEpoch /\ [][NextFp]_vars

\* The instant of the two integers of fpq, in thousands of seconds: the
\* smaller of the two is the one in seconds.
EpochInstantOf(q) == IF q.first.k <= q.second.k THEN q.first.k ELSE q.second.k

\* The original statement of C34: the integer in seconds and the integer in
\* milliseconds of any instant are normalised to the same UTC time and give
\* the same fingerprint.
C34_AnyInstantBothUnitsAgree ==
    fpr # <<>> =>
      /\ ParseDatetime(fpq.first) # ValueError
      /\ ParseDatetime(fpq.first) = ParseDatetime(fpq.second)
      /\ fpr[1] = fpr[2]

\* C34: an integer publish time above 1e12 is read as milliseconds since
\* the epoch, any other integer as seconds (and refused when the seconds are
\* beyond the year 9999); so for an instant later than 1e9 seconds after the
\* epoch (2001-09-09T01:46:40Z), the integer in seconds and the integer in
\* milliseconds are normalised to the same UTC time, the instant, and give
\* the same fingerprint.
C34_BothUnitsAgreeAfter2001 ==
    fpr # <<>> =>
      /\ \A v \in {fpq.first, fpq.second} :
           ParseDatetime(v) =
             IF v.k > MsThreshold THEN Aware(v.k, 0)
             ELSE IF v.k <= MaxTimestamp THEN Aware(1000 * v.k, 0)
             ELSE ValueError
      /\ 1000 * EpochInstantOf(fpq) > MsThreshold =>
           /\ ParseDatetime(fpq.first) = Aware(1000 * EpochInstantOf(fpq), 0)
           /\ ParseDatetime(fpq.second) = Aware(1000 * EpochInstantOf(fpq), 0)
           /\ fpr[1] = fpr[2]
           /\ fpr[1] # "ValueError"

\* The fingerprints of 2023-11-14T22:13:20Z are computed from its seconds and
\* from its milliseconds, and are the same.
C34_Witness ==
    /\ fpr # <<>>
    /\ fpq.first = EpochSeconds(1700000)
    /\ fpq.second = EpochMillis(1700000)
    /\ fpr[1] = fpr[2]
    /\ fpr[1] # "ValueError"

\* C35: save_announcement never raises to _process_batch, a failure to
\* acquire a connection of the pool included: it returns False, and the save
\* loop goes on, so every new item of the batch is handed to
\* save_announcement and no exception leaves _process_batch.
C35_SaveNeverRaises ==
    \A b \in FeedBatches :
      \A r \in {ProcessBatchFaulty(db, cache, clock, b.feed, b.items,
                                   "save_acquire")} :
        /\ ~r.raised
        /\ Len(r.saved) = Len(r.new)

\* ---------------------------------------------------------------------
\* The polling loop in a process that can be started again.

\* The number of times the process is started.
MaxStarts == 2

\* A faulty variant of TreatedAsNew: an item is new when the analyzer has
\* not seen its fingerprint, whatever the store holds.
TreatedAsNewUnseen(analyzer, db_, exchange, announcements) ==
    LET pairs == IdPairs(exchange, announcements)
    IN  SelectSeq(pairs, LAMBDA p : p.storage_id \notin analyzer.seen_ids)

\* The items _process_batch treats as new (lines 72-77): what bulk_check_new
\* returns for the feed's batch; the analyzer's seen_ids is not consulted.
TreatedAsNew(analyzer, db_, exchange, announcements) ==
    BulkCheckNew(db_, exchange, announcements, "none")

\* The process is started again after the task has ended: main builds a
\* new AnnouncementAnalyzer; the store and the cache are as they were left.
Restart ==
    /\ task \in {"crashed", "cancelled"}
    /\ proc.starts < MaxStarts
    /\ task' = "running"
    /\ proc' = FreshAnalyzer(proc.starts + 1)
    /\ UNCHANGED <<db, clock, cache, fpq, fpr, pending, boot, last_fetch,
                   run, callers, fanout>>

NextRestart ==
    \/ NextLoop
    \/ Restart

SpecRestart == Init /\ [][NextRestart]_vars

\* The fingerprints bulk_check_new computes for a batch.
BatchIds(b) ==
    {IdPairs(b.feed, b.items)[i].storage_id :
       i \in 1..Len(IdPairs(b.feed, b.items))}

C37_IdIsFingerprintOfTheRow ==
    \A r \in db.announcements :
      r.id = GenerateId(r.exchange, r.announcement_id, r.publish_time)

\* C38: update_user_classification returns True only when the correction
\* has been recorded: the announcement is in the store, its user_label is
\* the label given, and one human classification row has been added; for a
\* fingerprint that is not in the store, or for an empty label, it returns
\* False and leaves the store as it was.
C38_TrueOnlyWhenRecorded ==
    \A id \in AllStorageIds, l \in UserLabels, f \in UpdateFaults :
      \A r \in {UpdateUserClassificationResult(db, id, l, f, clock + 1)} :
        /\ r.ret =>
             /\ \E a \in r.db.announcements : a.id = id /\ a.user_label = l
             /\ Cardinality(UserRows(r.db, id))
                  = Cardinality(UserRows(db, id)) + 1
        /\ (id \notin StoredIds(db) \/ l = "") => (~r.ret /\ r.db = db)

\* The rows of the store that hold human corrections.
HumanRows(d) == {r \in d.classifications : r.is_user}

\* Saves and corrections of the bybit feed, interleaved: three items, two of
\* them spellings of one native id, with and without a classification.
CorrectedItems == {ItemA1, ItemA1Changed, ItemA2}
CorrectedClassifications ==
    {PyNone, [label |-> "trading", confidence |-> Num(90)],
     [label |-> "irrelevant", confidence |-> Num(40)]}
CorrectedIds == {DbIdOf("bybit", a) : a \in CorrectedItems}

NextCorrections ==
    \/ \E a \in CorrectedItems, c \in CorrectedClassifications,
          f \in SaveFaults :
         SaveAnnouncement("bybit", a, c, DbIdOf("bybit", a), f)
    \/ \E id \in CorrectedIds, l \in UserLabels, f \in UpdateFaults :
         UpdateUserClassification(id, l, f)

SpecCorrections == Init /\ [][NextCorrections]_vars

\* C39: save_announcement, on a first insert and on a re-ingestion, with or
\* without a classification and whether or not a statement fails, leaves the
\* user_label of every stored announcement and every classification row
\* with is_user = true as they are, in every store the calls of
\* save_announcement and update_user_classification can leave.
C39_SaveKeepsHumanCorrections ==
    \A a \in CorrectedItems, c \in CorrectedClassifications,
       f \in SaveFaults :
      \A r \in {SaveAnnouncementResult(db, "bybit", a, c,
                                       DbIdOf("bybit", a), f, clock + 1)} :
        /\ HumanRows(r.db) = HumanRows(db)
        /\ \A old \in db.announcements :
             \E new \in r.db.announcements :
               new.id = old.id /\ new.user_label = old.user_label

\* A corrected announcement (user_label set, a human classification row)
\* that a later save_announcement has written again: its automated
\* classification is younger than the correction.
C39_Witness ==
    \E a \in db.announcements :
      /\ a.user_label \notin {NULL, ""}
      /\ \E u \in UserRows(db, a.id), m \in AutoRows(db, a.id) :
           /\ u.label = a.user_label
           /\ m.classified_at > u.classified_at
           /\ a.updated_at > u.classified_at

\* C40: a notification is dispatched only for an item whose
\* save_announcement has returned True, and the fingerprint its correction
\* buttons carry is the id of an announcement in the store: for every batch,
\* every dispatch of _process_batch names a fingerprint that was saved with
\* success and that the store holds when the batch is done.
C40_NotifiedItemsAreStored ==
    \A b \in FeedBatches :
      \A r \in {ProcessBatchResult(db, cache, clock, b.feed, b.items)} :
        \A k \in 1..Len(r.dispatched) :
          /\ r.dispatched[k].storage_id \in StoredIds(r.db)
          /\ \E i \in 1..Len(r.saved) :
               /\ r.saved[i].storage_id = r.dispatched[k].storage_id
               /\ r.saved[i].ret

====
